---- MODULE Spec2Model ----
(***************************************************************************)
(* Healthcare claims processor: the row cleaner (cleanRow, parseDate), the  *)
(* file parsers (parseCSV, parseExcel), the batch persister                *)
(* (saveDataToDatabase), the aggregation engine (calculateMetrics) over    *)
(* the record store (ClaimRecord) and the summary store                    *)
(* (CalculatedMetrics), and the upload action that chains them.            *)
(*                                                                         *)
(* Values.  A cell of a stored row or of a cleaned record is <<>> for      *)
(* null/absent and <<v>> for the value v.  A JavaScript number that is an  *)
(* amount or a statistic is an exact fraction <<numerator, denominator>>   *)
(* in lowest terms with a positive denominator (rounding of doubles is not *)
(* modelled).                                                              *)
(***************************************************************************)
EXTENDS Integers, Sequences, FiniteSets, TLC

VARIABLES
    records,        \* record store: the ClaimRecord rows, in insertion order
    summaries,      \* summary store: the CalculatedMetrics rows, in insertion order
    faults,         \* number of store failures injected so far
    s_pc,           \* saveDataToDatabase: "idle", "createMany", "create", "done"
    data,           \* saveDataToDatabase: its argument
    i,              \* saveDataToDatabase: loop variable i (start of the batch)
    j,              \* saveDataToDatabase: position in processedBatch of the fallback loop
    savedCount,     \* saveDataToDatabase: savedCount
    s_outcome,      \* saveDataToDatabase: "none", "returned", "raised"
    log,            \* history of the insert operations issued by saveDataToDatabase
    saves,          \* number of saveDataToDatabase calls started
    m_pc,           \* calculateMetrics: "idle", "count", "findMany", "upsert", "done"
    filters,        \* calculateMetrics: its argument
    b,              \* calculateMetrics: index in levelsOfCare of the current bucket
    count,          \* calculateMetrics: count of the current bucket
    results,        \* calculateMetrics: results
    m_outcome,      \* calculateMetrics: "none", "returned", "raised"
    countFailed,    \* buckets of this run whose count query failed
    fetchFailed,    \* buckets of this run whose findMany query failed
    upsertFailed,   \* buckets of this run whose upsert failed
    fetched,        \* buckets of this run for which findMany was issued
    upserted,       \* buckets of this run for which upsert was issued
    runs,           \* number of calculateMetrics calls started
    u_pc,           \* upload action: "idle", "save", "metrics", "done"
    file,           \* upload action: the file of the request
    parsedData,     \* upload action: parsedData
    responses,      \* history of the responses returned by the upload action
    headers,        \* cleanRow: its argument headers
    row,            \* cleanRow: its argument row
    cleanedRow,     \* cleanRow: the record it returned, <<>> before it has run
    fieldName,      \* normalizeFieldName: its argument
    normalized,     \* the results of normalizeFieldName applied to fieldName, and
                    \* then to its own result
    loads           \* history of the filter sets the dashboard loader has built

storeVars == <<records, summaries, faults>>
saveVars == <<s_pc, data, i, j, savedCount, s_outcome, log, saves>>
metricsVars == <<m_pc, filters, b, count, results, m_outcome, countFailed,
                 fetchFailed, upsertFailed, fetched, upserted, runs>>
uploadVars == <<u_pc, file, parsedData, responses>>
nameVars == <<fieldName, normalized>>
loaderVars == <<loads>>
cleanVars == <<headers, row, cleanedRow, nameVars, loaderVars>>
vars == <<storeVars, saveVars, metricsVars, uploadVars, cleanVars>>

(***************************************************************************)
(* Bounds of the model.                                                    *)
(***************************************************************************)
MaxFaults == 2
MaxData == 2
MaxBatches == 2
MaxTail == 1
MaxRuns == 2

(***************************************************************************)
(* Cells and exact numbers.                                                *)
(***************************************************************************)
Null == <<>>

Cell(r, c) == IF c \in DOMAIN r THEN r[c] ELSE Null

Abs(n) == IF n < 0 THEN 0 - n ELSE n

RECURSIVE GCD(_, _)
GCD(x, y) == IF y = 0 THEN x ELSE GCD(y, x % y)

Frac(n, d) == LET g == GCD(Abs(n), d) IN <<n \div g, d \div g>>

Zero == Frac(0, 1)

Less(x, y) == x[1] * y[2] < y[1] * x[2]

Plus(x, y) == Frac(x[1] * y[2] + y[1] * x[2], x[2] * y[2])

DividedBy(x, n) == Frac(x[1], x[2] * n)

Min2(x, y) == IF x < y THEN x ELSE y

(***************************************************************************)
(* Cleaned records handed to saveDataToDatabase.                           *)
(***************************************************************************)
DateValue(iso) == <<"Date", iso>>

StringValue(text) == <<"String", text>>

IsDate(v) == v[1] = "Date"

\* the days the model's dates fall on, in the order of time
Calendar ==
    <<"2022-06-30", "2023-01-01", "2023-01-15", "2023-12-31", "2024-01-01", "2024-03-01",
      "2025-01-01">>

DayOf(date) == CHOOSE k \in DOMAIN Calendar : Calendar[k] = date[2]

RecordKinds ==
    { [levelOfCare |-> <<"DETOX">>, payerName |-> <<"A">>, patientState |-> <<"TX">>,
       allowedAmount |-> <<Frac(20, 1)>>, chargeFromDate |-> <<DateValue("2023-01-15")>>],
      [levelOfCare |-> <<"DETOX">>, payerName |-> <<"B">>,
       allowedAmount |-> <<Frac(5, 2)>>, chargeFromDate |-> Null],
      [levelOfCare |-> <<"DETOX">>, payerName |-> <<"A">>, allowedAmount |-> Null],
      [levelOfCare |-> <<"IOP">>, payerName |-> <<"A">>,
       allowedAmount |-> <<Frac(10, 1)>>, chargeFromDate |-> <<StringValue("01/15/2023")>>],
      [levelOfCare |-> <<"UNKNOWN">>, allowedAmount |-> <<Frac(10, 1)>>],
      [levelOfCare |-> <<"OP">>, payerName |-> <<"A">>, allowedAmount |-> <<Frac(5, 2)>>] }

SmallInputs == UNION { [1..n -> RecordKinds] : n \in 0..MaxData }

batchSize == 50

KindAt(k) ==
    IF k % 3 = 1
    THEN [levelOfCare |-> <<"DETOX">>, payerName |-> <<"A">>, patientState |-> <<"TX">>,
          allowedAmount |-> <<Frac(20, 1)>>, chargeFromDate |-> <<DateValue("2023-01-15")>>]
    ELSE IF k % 3 = 2
    THEN [levelOfCare |-> <<"IOP">>, payerName |-> <<"A">>,
          allowedAmount |-> <<Frac(10, 1)>>, chargeFromDate |-> <<StringValue("01/15/2023")>>]
    ELSE [levelOfCare |-> <<"DETOX">>, payerName |-> <<"A">>, allowedAmount |-> Null]

BatchInputs ==
    { [k \in 1..(nb * batchSize + t) |-> KindAt(k)] : nb \in 0..MaxBatches, t \in 0..MaxTail }

(***************************************************************************)
(* saveDataToDatabase                                                      *)
(***************************************************************************)
dateFields == {"paymentReceived", "paymentEntered", "chargeFromDate", "chargeToDate"}

\* processedBatch.map callback: a present date field keeps a Date and
\* becomes null otherwise; every other field is copied.
ProcessRecord(record) ==
    [f \in DOMAIN record |->
        IF f \in dateFields
        THEN IF record[f] # Null /\ IsDate(record[f][1]) THEN record[f] ELSE Null
        ELSE record[f]]

\* Slice taking the element at the end index as well
SliceInclusive(seq, from, to) == SubSeq(seq, from + 1, Min2(to + 1, Len(seq)))

\* data.slice(i, i + batchSize), 0-based i
Slice(seq, from, to) == SubSeq(seq, from + 1, Min2(to, Len(seq)))

batch == Slice(data, i, i + batchSize)

processedBatch == [k \in 1..Len(batch) |-> ProcessRecord(batch[k])]

\* the for statement's update and test: the next batch, or the return
NextBatch ==
    /\ i' = i + batchSize
    /\ j' = 0
    /\ IF i + batchSize < Len(data)
       THEN s_pc' = "createMany" /\ s_outcome' = s_outcome
       ELSE s_pc' = "done" /\ s_outcome' = "returned"

SaveStart(d) ==
    /\ s_pc \in {"idle", "done"}
    /\ saves' = saves + 1
    /\ data' = d
    /\ i' = 0
    /\ j' = 0
    /\ savedCount' = 0
    /\ log' = <<>>
    /\ IF Len(d) = 0
       THEN s_pc' = "done" /\ s_outcome' = "returned"
       ELSE s_pc' = "createMany" /\ s_outcome' = "none"
    /\ UNCHANGED <<storeVars, metricsVars>>

\* CreateManyOk that deletes the stored records before it inserts the batch
CreateManyOkReplacing ==
    /\ s_pc = "createMany"
    /\ records' = processedBatch
    /\ savedCount' = savedCount + Len(batch)
    /\ log' = Append(log, [op |-> "createMany", at |-> i, n |-> Len(batch), ok |-> TRUE])
    /\ NextBatch
    /\ UNCHANGED <<summaries, faults, data, saves, metricsVars>>

\* db.claimRecord.createMany succeeds: one INSERT of the whole batch
CreateManyOk ==
    /\ s_pc = "createMany"
    /\ records' = records \o processedBatch
    /\ savedCount' = savedCount + Len(batch)
    /\ log' = Append(log, [op |-> "createMany", at |-> i, n |-> Len(batch), ok |-> TRUE])
    /\ NextBatch
    /\ UNCHANGED <<summaries, faults, data, saves, metricsVars>>

\* CreateManyFail without the fallback: the failure of a batch ends the loop
CreateManyFailAborts ==
    /\ s_pc = "createMany"
    /\ faults < MaxFaults
    /\ faults' = faults + 1
    /\ log' = Append(log, [op |-> "createMany", at |-> i, n |-> Len(batch), ok |-> FALSE])
    /\ s_pc' = "done"
    /\ s_outcome' = "returned"
    /\ UNCHANGED <<records, summaries, data, i, j, savedCount, saves, metricsVars>>

\* CreateManyFail of a bulk insert that has stored its first record when it throws
CreateManyFailAfterFirst ==
    /\ s_pc = "createMany"
    /\ faults < MaxFaults
    /\ faults' = faults + 1
    /\ records' = Append(records, processedBatch[1])
    /\ log' = Append(log, [op |-> "createMany", at |-> i, n |-> Len(batch), ok |-> FALSE])
    /\ s_pc' = "create"
    /\ j' = 0
    /\ UNCHANGED <<summaries, data, i, savedCount, s_outcome, saves, metricsVars>>

\* db.claimRecord.createMany throws: the catch block starts the fallback loop
CreateManyFail ==
    /\ s_pc = "createMany"
    /\ faults < MaxFaults
    /\ faults' = faults + 1
    /\ log' = Append(log, [op |-> "createMany", at |-> i, n |-> Len(batch), ok |-> FALSE])
    /\ s_pc' = "create"
    /\ j' = 0
    /\ UNCHANGED <<records, summaries, data, i, savedCount, s_outcome, saves, metricsVars>>

\* the for-of statement's advance: the next record of processedBatch, or the next batch
NextRecord ==
    IF j + 1 < Len(processedBatch)
    THEN j' = j + 1 /\ UNCHANGED <<i, s_pc, s_outcome>>
    ELSE NextBatch

\* db.claimRecord.create succeeds for processedBatch[j]
CreateOk ==
    /\ s_pc = "create"
    /\ records' = Append(records, processedBatch[j + 1])
    /\ savedCount' = savedCount + 1
    /\ log' = Append(log, [op |-> "create", at |-> i + j, n |-> 1, ok |-> TRUE])
    /\ NextRecord
    /\ UNCHANGED <<summaries, faults, data, saves, metricsVars>>

\* CreateFail leaving the fallback loop at the first failure
CreateFailBreaks ==
    /\ s_pc = "create"
    /\ faults < MaxFaults
    /\ faults' = faults + 1
    /\ log' = Append(log, [op |-> "create", at |-> i + j, n |-> 1, ok |-> FALSE])
    /\ NextBatch
    /\ UNCHANGED <<records, summaries, data, savedCount, saves, metricsVars>>

\* CreateFail without the inner try: the failure leaves saveDataToDatabase
CreateFailRethrows ==
    /\ s_pc = "create"
    /\ faults < MaxFaults
    /\ faults' = faults + 1
    /\ log' = Append(log, [op |-> "create", at |-> i + j, n |-> 1, ok |-> FALSE])
    /\ s_pc' = "done"
    /\ s_outcome' = "raised"
    /\ UNCHANGED <<records, summaries, data, i, j, savedCount, saves, metricsVars>>

\* db.claimRecord.create throws for processedBatch[j]: logged, loop continues
CreateFail ==
    /\ s_pc = "create"
    /\ faults < MaxFaults
    /\ faults' = faults + 1
    /\ log' = Append(log, [op |-> "create", at |-> i + j, n |-> 1, ok |-> FALSE])
    /\ NextRecord
    /\ UNCHANGED <<records, summaries, data, savedCount, saves, metricsVars>>

(***************************************************************************)
(* The two stores (prisma/schema.prisma).  A query or a write that names a *)
(* column the model does not have is rejected by the client: it throws.   *)
(***************************************************************************)
ClaimRecordColumns ==
    {"practiceName", "charge", "cptCode", "revenueCode", "levelOfCare", "chargeAmount",
     "payment", "allowedAmount", "primaryGroup", "claimPrimaryID", "payerName",
     "payerGroup", "paymentTotal", "paymentReceived", "paymentEntered", "chargeFromDate",
     "chargeToDate", "primaryInsZip", "primaryInsCity", "primaryInsState",
     "primaryInsAddr1", "patientZip", "patientCity", "patientState", "patientAddress1",
     "payerClass", "employerName", "prefix", "groupPolicy"}

CalculatedMetricsColumns ==
    {"levelOfCare", "recordCount", "averageAllowedAmount", "minAllowedAmount",
     "maxAllowedAmount", "medianAllowedAmount", "modeAllowedAmount", "stateTreatedAt",
     "payerName", "payerClass", "employerName", "prefix", "groupPolicy",
     "policyHolderState", "serviceYear", "paymentReceivedYear"}

\* @@unique([levelOfCare, stateTreatedAt, payerName, payerClass, serviceYear, paymentReceivedYear])
UniqueKeyColumns ==
    <<"levelOfCare", "stateTreatedAt", "payerName", "payerClass", "serviceYear",
      "paymentReceivedYear">>

ValidWhere(where) == DOMAIN where \subseteq ClaimRecordColumns

\* a where clause on one stored record: the filter of a date column is a
\* range { gte, lt }, every other filter is an equality
Matches(rec, where) ==
    \A c \in DOMAIN where :
        IF c \in dateFields
        THEN /\ Cell(rec, c) # Null
             /\ IsDate(Cell(rec, c)[1])
             /\ DayOf(where[c].gte) <= DayOf(Cell(rec, c)[1])
             /\ DayOf(Cell(rec, c)[1]) < DayOf(where[c].lt)
        ELSE Cell(rec, c) = <<where[c]>>

RECURSIVE SelectMatching(_, _)
SelectMatching(rows, where) ==
    IF rows = <<>> THEN <<>>
    ELSE IF Matches(Head(rows), where)
         THEN <<Head(rows)>> \o SelectMatching(Tail(rows), where)
         ELSE SelectMatching(Tail(rows), where)

\* db.claimRecord.count({ where })
CountRows(rows, where) == Len(SelectMatching(rows, where))

\* db.claimRecord.findMany({ where, select: { allowedAmount: true } })
FindManyAllowedAmount(rows, where) ==
    LET sel == SelectMatching(rows, where)
    IN [k \in 1..Len(sel) |-> Cell(sel[k], "allowedAmount")]

ValidMetricsData(d) == DOMAIN d \subseteq CalculatedMetricsColumns

\* the row an INSERT of d creates: a column without a value is NULL
NewRow(d) == [c \in CalculatedMetricsColumns |-> IF c \in DOMAIN d THEN <<d[c]>> ELSE Null]

\* the row an UPDATE with d leaves: the columns of d are set, the others kept
UpdatedRow(old, d) == [c \in CalculatedMetricsColumns |-> IF c \in DOMAIN d THEN <<d[c]>> ELSE old[c]]

\* the rows a compound unique where selects: every key column equals its value
KeyMatches(stored, key) == \A c \in DOMAIN key : stored[c] = <<key[c]>>

\* Upsert as an update only: nothing is created when no row has the key
UpsertUpdateOnly(rows, key, update, create) ==
    [k \in DOMAIN rows |-> IF KeyMatches(rows[k], key)
                            THEN UpdatedRow(rows[k], update) ELSE rows[k]]

\* db.calculatedMetrics.upsert({ where: { <compound key> }, update, create })
Upsert(rows, key, update, create) ==
    IF \E k \in DOMAIN rows : KeyMatches(rows[k], key)
    THEN [k \in DOMAIN rows |-> IF KeyMatches(rows[k], key)
                                 THEN UpdatedRow(rows[k], update) ELSE rows[k]]
    ELSE Append(rows, NewRow(create))

(***************************************************************************)
(* Statistics of calculateMetrics over the fetched allowedAmount cells.    *)
(***************************************************************************)
\* .map(item => item.allowedAmount).filter(amount => amount !== null && amount !== undefined)
RECURSIVE ValidAmounts(_)
ValidAmounts(cells) ==
    IF cells = <<>> THEN <<>>
    ELSE IF Head(cells) = Null THEN ValidAmounts(Tail(cells))
         ELSE <<Head(cells)[1]>> \o ValidAmounts(Tail(cells))

\* validAmounts.reduce((acc, val) => acc + val, 0)
RECURSIVE Sum(_)
Sum(xs) == IF xs = <<>> THEN Zero ELSE Plus(Head(xs), Sum(Tail(xs)))

RECURSIVE Minimum(_)
Minimum(xs) ==
    IF Len(xs) = 1 THEN xs[1]
    ELSE LET m == Minimum(Tail(xs)) IN IF Less(m, Head(xs)) THEN m ELSE Head(xs)

RECURSIVE Maximum(_)
Maximum(xs) ==
    IF Len(xs) = 1 THEN xs[1]
    ELSE LET m == Maximum(Tail(xs)) IN IF Less(Head(xs), m) THEN m ELSE Head(xs)

RECURSIVE Insert(_, _)
Insert(x, sorted) ==
    IF sorted = <<>> THEN <<x>>
    ELSE IF Less(x, Head(sorted)) THEN <<x>> \o sorted
         ELSE <<Head(sorted)>> \o Insert(x, Tail(sorted))

\* [...validAmounts].sort((a, b) => a - b)
RECURSIVE Sorted(_)
Sorted(xs) == IF xs = <<>> THEN <<>> ELSE Insert(Head(xs), Sorted(Tail(xs)))

Average(xs) == IF Len(xs) > 0 THEN DividedBy(Sum(xs), Len(xs)) ELSE Zero

\* Median that takes the upper middle element for an even length
MedianUpperMiddle(xs) ==
    LET sorted == Sorted(xs)
        middle == Len(sorted) \div 2
    IN IF Len(sorted) > 0 THEN sorted[middle + 1] ELSE Zero

Median(xs) ==
    LET sorted == Sorted(xs)
        middle == Len(sorted) \div 2
    IN IF Len(sorted) > 0
       THEN IF Len(sorted) % 2 = 0
            THEN DividedBy(Plus(sorted[middle], sorted[middle + 1]), 2)
            ELSE sorted[middle + 1]
       ELSE Zero

\* a property key that is an array index (a whole number from 0 to 2^32 - 2):
\* Object.entries lists these first, in ascending numeric order, and every
\* other key after them in insertion order.  The upper limit is written with
\* a quotient because the numbers of the model stay below 2^31.
IsArrayIndex(x) == x[2] = 1 /\ x[1] >= 0 /\ x[1] \div 65536 < 65536

Contains(xs, x) == \E k \in DOMAIN xs : xs[k] = x

\* the keys of frequency in the order of their first insertion
RECURSIVE InsertionOrder(_, _)
InsertionOrder(xs, seen) ==
    IF xs = <<>> THEN seen
    ELSE InsertionOrder(Tail(xs), IF Contains(seen, Head(xs)) THEN seen ELSE Append(seen, Head(xs)))

RECURSIVE Keep(_, _)
Keep(xs, index) ==
    IF xs = <<>> THEN <<>>
    ELSE IF IsArrayIndex(Head(xs)) = index THEN <<Head(xs)>> \o Keep(Tail(xs), index)
         ELSE Keep(Tail(xs), index)

\* the entries in the order of first insertion, whatever the keys are
EntriesInsertionOrder(xs) == InsertionOrder(xs, <<>>)

\* Object.entries(frequency), keys only
EntriesOrder(xs) ==
    LET keys == InsertionOrder(xs, <<>>)
    IN Sorted(Keep(keys, TRUE)) \o Keep(keys, FALSE)

\* frequency[val]
Frequency(xs, v) == Cardinality({k \in DOMAIN xs : xs[k] = v})

RECURSIVE ModeLoop(_, _, _, _)
ModeLoop(entries, xs, mode, maxFrequency) ==
    IF entries = <<>> THEN mode
    ELSE IF Frequency(xs, Head(entries)) > maxFrequency
         THEN ModeLoop(Tail(entries), xs, Head(entries), Frequency(xs, Head(entries)))
         ELSE ModeLoop(Tail(entries), xs, mode, maxFrequency)

Mode(xs) == ModeLoop(EntriesOrder(xs), xs, Zero, 0)

(***************************************************************************)
(* calculateMetrics                                                        *)
(***************************************************************************)
levelsOfCare == <<"DETOX", "RES", "PHP", "IOP", "OTHER">>

levelOfCare == levelsOfCare[b]

\* whereClause without the bucket
whereClauseWithoutLevel == filters

\* { levelOfCare, ...filters }
whereClause == filters @@ [levelOfCare |-> levelOfCare]

\* the object pushed for a zero count and by the outer catch block
ZeroMetrics(loc, cnt, f) ==
    f @@ [levelOfCare |-> loc, recordCount |-> cnt, averageAllowedAmount |-> Zero,
          minAllowedAmount |-> Zero, maxAllowedAmount |-> Zero,
          medianAllowedAmount |-> Zero, modeAllowedAmount |-> Zero]

\* the metrics object computed from the fetched cells
ComputedMetrics(loc, cnt, f, cells) ==
    LET validAmounts == ValidAmounts(cells)
    IN f @@ [levelOfCare |-> loc, recordCount |-> cnt,
             averageAllowedAmount |-> Average(validAmounts),
             minAllowedAmount |-> IF Len(validAmounts) > 0 THEN Minimum(validAmounts) ELSE Zero,
             maxAllowedAmount |-> IF Len(validAmounts) > 0 THEN Maximum(validAmounts) ELSE Zero,
             medianAllowedAmount |-> Median(validAmounts),
             modeAllowedAmount |-> Mode(validAmounts)]

\* (filters.k as string) || '' and (filters.k as number) || 0
OrElse(f, k, sentinel) == IF k \in DOMAIN f THEN f[k] ELSE sentinel

\* the compound key of the upsert's where
UpsertKey(loc, f) ==
    [levelOfCare |-> loc,
     stateTreatedAt |-> OrElse(f, "stateTreatedAt", ""),
     payerName |-> OrElse(f, "payerName", ""),
     payerClass |-> OrElse(f, "payerClass", ""),
     serviceYear |-> OrElse(f, "serviceYear", 0),
     paymentReceivedYear |-> OrElse(f, "paymentReceivedYear", 0)]

\* the filter sets given to calculateMetrics
FilterSets ==
    { <<>>,
      [payerName |-> "A"],
      [patientState |-> "TX"],
      [stateTreatedAt |-> "TX"] }

\* the for-of statement over levelsOfCare: the next bucket, or return results
NextLevel ==
    IF b < Len(levelsOfCare)
    THEN b' = b + 1 /\ m_pc' = "count" /\ m_outcome' = m_outcome
    ELSE b' = b /\ m_pc' = "done" /\ m_outcome' = "returned"

MetricsStart(f) ==
    /\ m_pc \in {"idle", "done"}
    /\ runs < MaxRuns
    /\ runs' = runs + 1
    /\ filters' = f
    /\ b' = 1
    /\ count' = 0
    /\ results' = <<>>
    /\ m_pc' = "count"
    /\ m_outcome' = "none"
    /\ countFailed' = {}
    /\ fetchFailed' = {}
    /\ upsertFailed' = {}
    /\ fetched' = {}
    /\ upserted' = {}
    /\ UNCHANGED <<storeVars, saveVars>>

\* CountOk without the zero-count shortcut: every bucket is fetched
CountOkNoSkip ==
    /\ m_pc = "count"
    /\ ValidWhere(whereClause)
    /\ count' = CountRows(records, whereClause)
    /\ m_pc' = "findMany"
    /\ UNCHANGED <<storeVars, saveVars, filters, results, b, m_outcome, countFailed,
                   fetchFailed, upsertFailed, fetched, upserted, runs>>

\* db.claimRecord.count answers; a zero count pushes the zero-valued object and continues
CountOk ==
    /\ m_pc = "count"
    /\ ValidWhere(whereClause)
    /\ count' = CountRows(records, whereClause)
    /\ IF count' = 0
       THEN /\ results' = Append(results, ZeroMetrics(levelOfCare, 0, filters))
            /\ NextLevel
       ELSE /\ m_pc' = "findMany"
            /\ UNCHANGED <<results, b, m_outcome>>
    /\ UNCHANGED <<storeVars, saveVars, filters, countFailed, fetchFailed, upsertFailed,
                   fetched, upserted, runs>>

\* CountFail without the try around count: the failure leaves calculateMetrics
CountFailPropagates ==
    /\ m_pc = "count"
    /\ \/ ~ValidWhere(whereClause) /\ faults' = faults
       \/ ValidWhere(whereClause) /\ faults < MaxFaults /\ faults' = faults + 1
    /\ countFailed' = countFailed \cup {levelOfCare}
    /\ m_pc' = "done"
    /\ m_outcome' = "raised"
    /\ UNCHANGED <<records, summaries, saveVars, filters, b, count, results, fetchFailed,
                   upsertFailed, fetched, upserted, runs>>

\* db.claimRecord.count throws: the catch block sets count = 0
CountFail ==
    /\ m_pc = "count"
    /\ \/ ~ValidWhere(whereClause) /\ faults' = faults
       \/ ValidWhere(whereClause) /\ faults < MaxFaults /\ faults' = faults + 1
    /\ count' = 0
    /\ countFailed' = countFailed \cup {levelOfCare}
    /\ results' = Append(results, ZeroMetrics(levelOfCare, 0, filters))
    /\ NextLevel
    /\ UNCHANGED <<records, summaries, saveVars, filters, fetchFailed, upsertFailed,
                   fetched, upserted, runs>>

\* db.claimRecord.findMany answers: the statistics are computed and pushed
FindManyOk ==
    /\ m_pc = "findMany"
    /\ fetched' = fetched \cup {levelOfCare}
    /\ results' = Append(results, ComputedMetrics(levelOfCare, count, filters,
                                     FindManyAllowedAmount(records, whereClause)))
    /\ m_pc' = "upsert"
    /\ UNCHANGED <<storeVars, saveVars, filters, b, count, m_outcome, countFailed,
                   fetchFailed, upsertFailed, upserted, runs>>

\* FindManyFail whose catch block pushes nothing: the bucket is left out
FindManyFailSkipsBucket ==
    /\ m_pc = "findMany"
    /\ faults < MaxFaults
    /\ faults' = faults + 1
    /\ fetched' = fetched \cup {levelOfCare}
    /\ fetchFailed' = fetchFailed \cup {levelOfCare}
    /\ results' = results
    /\ NextLevel
    /\ UNCHANGED <<records, summaries, saveVars, filters, count, countFailed,
                   upsertFailed, upserted, runs>>

\* db.claimRecord.findMany throws: the outer catch block pushes zero statistics
FindManyFail ==
    /\ m_pc = "findMany"
    /\ faults < MaxFaults
    /\ faults' = faults + 1
    /\ fetched' = fetched \cup {levelOfCare}
    /\ fetchFailed' = fetchFailed \cup {levelOfCare}
    /\ results' = Append(results, ZeroMetrics(levelOfCare, count, filters))
    /\ NextLevel
    /\ UNCHANGED <<records, summaries, saveVars, filters, count, countFailed,
                   upsertFailed, upserted, runs>>

\* the metrics object of the current bucket, already pushed to results
metrics == results[Len(results)]

\* db.calculatedMetrics.upsert succeeds
UpsertOk ==
    /\ m_pc = "upsert"
    /\ ValidMetricsData(metrics)
    /\ summaries' = Upsert(summaries, UpsertKey(levelOfCare, filters), metrics, metrics)
    /\ upserted' = upserted \cup {levelOfCare}
    /\ NextLevel
    /\ UNCHANGED <<records, faults, saveVars, filters, count, results, countFailed,
                   fetchFailed, upsertFailed, fetched, runs>>

\* UpsertFail without the inner try: the outer catch block pushes a second,
\* zero-valued object for the bucket
UpsertFailOuterCatch ==
    /\ m_pc = "upsert"
    /\ \/ ~ValidMetricsData(metrics) /\ faults' = faults
       \/ ValidMetricsData(metrics) /\ faults < MaxFaults /\ faults' = faults + 1
    /\ upserted' = upserted \cup {levelOfCare}
    /\ upsertFailed' = upsertFailed \cup {levelOfCare}
    /\ results' = Append(results, ZeroMetrics(levelOfCare, count, filters))
    /\ NextLevel
    /\ UNCHANGED <<records, summaries, saveVars, filters, count, countFailed,
                   fetchFailed, fetched, runs>>

\* db.calculatedMetrics.upsert throws: the inner catch block logs and goes on
UpsertFail ==
    /\ m_pc = "upsert"
    /\ \/ ~ValidMetricsData(metrics) /\ faults' = faults
       \/ ValidMetricsData(metrics) /\ faults < MaxFaults /\ faults' = faults + 1
    /\ upserted' = upserted \cup {levelOfCare}
    /\ upsertFailed' = upsertFailed \cup {levelOfCare}
    /\ NextLevel
    /\ UNCHANGED <<records, summaries, saveVars, filters, count, results, countFailed,
                   fetchFailed, fetched, runs>>

(***************************************************************************)
(* JavaScript values of a raw row.                                         *)
(*                                                                         *)
(* A raw value is a tuple that starts with what it is: <<"undefined">>,    *)
(* <<"null">>, <<"boolean", v>>, <<"number", x>>, <<"string", cs>> or a    *)
(* Date.  A string is the sequence of its characters.  A number is a       *)
(* fraction <<n, d>>; the                                                  *)
(* denominator 0 gives NaN (0/0), Infinity (1/0) and -Infinity (-1/0), and *)
(* a third component e gives n/d * 10^e for a number that is too large for *)
(* the integers of the model checker.  A Date is <<"Date", unit, amount>>  *)
(* (or <<"Date", iso>> as above); the Date whose time value is NaN is      *)
(* InvalidDate.                                                            *)
(***************************************************************************)
Undefined == <<"undefined">>

NullValue == <<"null">>

\* a value that Number() cannot convert: the conversion raises a TypeError
Symbol == <<"symbol">>

Bool(v) == <<"boolean", v>>

Num(x) == <<"number", x>>

Str(cs) == <<"string", cs>>

NaN == <<0, 0>>

Infinity == <<1, 0>>

NegativeInfinity == <<0 - 1, 0>>

Sci(n, e) == <<n, 1, e>>

IsNaN(x) == x[1] = 0 /\ x[2] = 0

IsFinite(x) == x[2] # 0

Exponent(x) == IF Len(x) = 3 THEN x[3] ELSE 0

RECURSIVE Pow10(_)
Pow10(k) == IF k = 0 THEN 1 ELSE 10 * Pow10(k - 1)

\* a * 10^p < c for integers a, c and p >= 0, without leaving the integers
ScaledLess(a, p, c) ==
    IF p > 9
    THEN IF a = 0 THEN 0 < c ELSE a < 0
    ELSE a < 0 - ((0 - c) \div Pow10(p))

\* a * 10^p > c for integers a, c and p >= 0
ScaledGreater(a, p, c) ==
    IF p > 9
    THEN IF a = 0 THEN 0 > c ELSE a > 0
    ELSE a > c \div Pow10(p)

\* x < y of two numbers: false when either is NaN
LessThan(x, y) ==
    IF IsNaN(x) \/ IsNaN(y) THEN FALSE
    ELSE IF ~IsFinite(x) THEN x = NegativeInfinity /\ y # NegativeInfinity
    ELSE IF ~IsFinite(y) THEN y = Infinity
    ELSE LET a == x[1] * y[2]
             c == y[1] * x[2]
             p == Exponent(x) - Exponent(y)
         IN IF p >= 0 THEN ScaledLess(a, p, c) ELSE ScaledGreater(c, 0 - p, a)

Negated(x) == IF Len(x) = 3 THEN <<0 - x[1], x[2], x[3]>> ELSE <<0 - x[1], x[2]>>

\* Math.floor of a number within the integers of the model checker
Floor(x) == Frac(x[1] \div x[2], 1)

InvalidDate == <<"Date", "Invalid Date">>

\* the largest time value of a Date, 8.64e15 ms, in the given unit
MaxTime(unit) == IF unit = "seconds" THEN Sci(864, 10) ELSE Sci(864, 13)

\* new Date(t) for a number t of seconds or milliseconds since 1970-01-01T00:00:00Z
\* (the time value is cut to whole milliseconds, which is not modelled)
NewDate(unit, t) ==
    IF IsFinite(t) /\ ~LessThan(MaxTime(unit), t) /\ ~LessThan(t, Negated(MaxTime(unit)))
    THEN <<"Date", unit, t>>
    ELSE InvalidDate

\* the time value of a Date in milliseconds
TimeValue(d) ==
    IF d = InvalidDate THEN NaN
    ELSE IF d[2] = "seconds" THEN <<d[3][1], d[3][2], Exponent(d[3]) + 3>>
    ELSE d[3]

(***************************************************************************)
(* Characters and texts.                                                   *)
(***************************************************************************)
Digits == <<"0", "1", "2", "3", "4", "5", "6", "7", "8", "9">>

IsDigit(c) == \E k \in DOMAIN Digits : Digits[k] = c

DigitValue(c) == (CHOOSE k \in DOMAIN Digits : Digits[k] = c) - 1

\* the white space \s and trim() remove (of the characters the model draws)
\* "U+00A0" stands for the one character no-break space
WhiteSpace == {" ", "\t", "\n", "\r", "U+00A0"}

RECURSIVE TrimStart(_)
TrimStart(cs) ==
    IF cs # <<>> /\ Head(cs) \in WhiteSpace THEN TrimStart(Tail(cs)) ELSE cs

RECURSIVE TrimEnd(_)
TrimEnd(cs) ==
    IF cs # <<>> /\ cs[Len(cs)] \in WhiteSpace THEN TrimEnd(SubSeq(cs, 1, Len(cs) - 1)) ELSE cs

Trim(cs) == TrimEnd(TrimStart(cs))

\* the same string as one value of the stores
RECURSIVE Text(_)
Text(cs) == IF cs = <<>> THEN "" ELSE Head(cs) \o Text(Tail(cs))

\* the decimal digits of a natural number
RECURSIVE NatToString(_)
NatToString(n) ==
    IF n < 10 THEN <<Digits[n + 1]>> ELSE NatToString(n \div 10) \o <<Digits[(n % 10) + 1]>>

\* the digits after the decimal point of r/d, 0 <= r < d, d a divisor of a power of ten
RECURSIVE FractionDigits(_, _)
FractionDigits(r, d) ==
    IF r = 0 THEN <<>>
    ELSE <<Digits[((10 * r) \div d) + 1]>> \o FractionDigits((10 * r) % d, d)

RECURSIVE Zeros(_)
Zeros(k) == IF k = 0 THEN <<>> ELSE <<"0">> \o Zeros(k - 1)

\* String(x) of a number; a number of 10^21 or more is written with an exponent
NumberToString(x) ==
    IF IsNaN(x) THEN <<"N", "a", "N">>
    ELSE IF x = Infinity THEN <<"I", "n", "f", "i", "n", "i", "t", "y">>
    ELSE IF x = NegativeInfinity THEN <<"-", "I", "n", "f", "i", "n", "i", "t", "y">>
    ELSE LET sign == IF x[1] < 0 THEN <<"-">> ELSE <<>>
             n == Abs(x[1])
             whole == NatToString(n \div x[2])
             digits == whole \o Zeros(Exponent(x))
         IN IF Len(digits) > 21
            THEN sign \o <<Head(whole)>>
                      \o (IF Len(whole) > 1 THEN <<".">> \o Tail(whole) ELSE <<>>)
                      \o <<"e", "+">> \o NatToString(Len(digits) - 1)
            ELSE IF n % x[2] = 0 THEN sign \o digits
            ELSE sign \o whole \o <<".">> \o FractionDigits(n % x[2], x[2])

\* String(value)
StringOf(value) ==
    CASE value[1] = "string" -> value[2]
      [] value[1] = "number" -> NumberToString(value[2])
      [] value[1] = "boolean" -> IF value[2] THEN <<"t", "r", "u", "e">>
                                              ELSE <<"f", "a", "l", "s", "e">>
      [] value[1] = "null" -> <<"n", "u", "l", "l">>
      [] value[1] = "undefined" -> <<"u", "n", "d", "e", "f", "i", "n", "e", "d">>
      [] value[1] = "Date" ->
            IF value = InvalidDate
            THEN <<"I", "n", "v", "a", "l", "i", "d", " ", "D", "a", "t", "e">>
            ELSE <<"[weekday month day year time zone]">>

(***************************************************************************)
(* parseFloat and Number                                                   *)
(***************************************************************************)
RECURSIVE TakeDigits(_)
TakeDigits(cs) ==
    IF cs # <<>> /\ IsDigit(Head(cs)) THEN <<Head(cs)>> \o TakeDigits(Tail(cs)) ELSE <<>>

Drop(cs, k) == SubSeq(cs, k + 1, Len(cs))

RECURSIVE DigitsValue(_)
DigitsValue(ds) ==
    IF ds = <<>> THEN 0
    ELSE 10 * DigitsValue(SubSeq(ds, 1, Len(ds) - 1)) + DigitValue(ds[Len(ds)])

StartsWith(cs, prefix) == Len(cs) >= Len(prefix) /\ SubSeq(cs, 1, Len(prefix)) = prefix

\* m * 10^e for a mantissa m written with wholeLen digits before the point;
\* beyond the largest double the result is Infinity
Scale(m, e, wholeLen) ==
    IF m[1] = 0 \/ e < 0 - 330 THEN Zero
    ELSE IF e + wholeLen > 309 THEN Infinity
    ELSE IF e < 0 THEN Frac(m[1], m[2] * Pow10(0 - e))
    ELSE IF e + Len(NatToString(m[1])) <= 9 THEN Frac(m[1] * Pow10(e), m[2])
    ELSE <<m[1], m[2], e>>

\* parseFloat(string): the longest prefix that is a decimal literal, after
\* leading white space; NaN when there is none
parseFloat(cs) ==
    LET s == TrimStart(cs)
        negative == s # <<>> /\ Head(s) = "-"
        unsigned == IF s # <<>> /\ Head(s) \in {"+", "-"} THEN Tail(s) ELSE s
        whole == TakeDigits(unsigned)
        afterWhole == Drop(unsigned, Len(whole))
        hasPoint == afterWhole # <<>> /\ Head(afterWhole) = "."
        fraction == IF hasPoint THEN TakeDigits(Tail(afterWhole)) ELSE <<>>
        afterFraction == IF hasPoint THEN Drop(afterWhole, 1 + Len(fraction)) ELSE afterWhole
        afterE == IF afterFraction # <<>> /\ Head(afterFraction) \in {"e", "E"}
                  THEN Tail(afterFraction) ELSE <<>>
        expNegative == afterE # <<>> /\ Head(afterE) = "-"
        expDigits == TakeDigits(IF afterE # <<>> /\ Head(afterE) \in {"+", "-"}
                                THEN Tail(afterE) ELSE afterE)
        exponent == IF expNegative THEN 0 - DigitsValue(expDigits) ELSE DigitsValue(expDigits)
        mantissa == Frac(DigitsValue(whole \o fraction), Pow10(Len(fraction)))
        magnitude == Scale(mantissa, exponent, Len(whole))
    IN IF StartsWith(unsigned, <<"I", "n", "f", "i", "n", "i", "t", "y">>)
       THEN IF negative THEN NegativeInfinity ELSE Infinity
       ELSE IF whole = <<>> /\ fraction = <<>> THEN NaN
       ELSE IF negative THEN Negated(magnitude) ELSE magnitude

\* Number(value) of a value that is neither a string, null nor undefined
ToNumber(value) ==
    CASE value[1] = "number" -> value[2]
      [] value[1] = "boolean" -> IF value[2] THEN Frac(1, 1) ELSE Zero
      [] value[1] = "Date" -> TimeValue(value)

\* isNaN(value): Number(null) is 0, Number(undefined) is NaN
isNaN(value) ==
    \/ value[1] = "undefined"
    \/ value[1] = "number" /\ IsNaN(value[2])

\* !value
Falsy(value) ==
    \/ value[1] \in {"undefined", "null"}
    \/ value[1] = "string" /\ value[2] = <<>>
    \/ value[1] = "number" /\ (IsNaN(value[2]) \/ value[2][1] = 0)
    \/ value[1] = "boolean" /\ ~value[2]

(***************************************************************************)
(* normalizeFieldName and FIELD_MAPPING                                    *)
(***************************************************************************)
LowerCaseOf ==
    [A |-> "a", B |-> "b", C |-> "c", D |-> "d", E |-> "e", F |-> "f", G |-> "g",
     H |-> "h", I |-> "i", J |-> "j", K |-> "k", L |-> "l", M |-> "m", N |-> "n",
     O |-> "o", P |-> "p", Q |-> "q", R |-> "r", S |-> "s", T |-> "t", U |-> "u",
     V |-> "v", W |-> "w", X |-> "x", Y |-> "y", Z |-> "z"]

\* letters outside ASCII, each standing for one character: the Kelvin sign,
\* whose lower case is the ASCII letter k, and E with acute
LowerCaseOfOthers == ("U+212A" :> "k") @@ ("U+00C9" :> "U+00E9")

\* toLowerCase (of the characters the model draws)
ToLowerCase(cs) ==
    [k \in DOMAIN cs |-> IF cs[k] \in DOMAIN LowerCaseOf THEN LowerCaseOf[cs[k]]
                         ELSE IF cs[k] \in DOMAIN LowerCaseOfOthers THEN LowerCaseOfOthers[cs[k]]
                         ELSE cs[k]]

\* replace(/\s+/g, '_')
RECURSIVE ReplaceWhiteSpace(_)
ReplaceWhiteSpace(cs) ==
    IF cs = <<>> THEN <<>>
    ELSE IF Head(cs) \in WhiteSpace THEN <<"_">> \o ReplaceWhiteSpace(TrimStart(cs))
    ELSE <<Head(cs)>> \o ReplaceWhiteSpace(Tail(cs))

\* the characters [a-z0-9_]
FieldNameCharacters ==
    {LowerCaseOf[c] : c \in DOMAIN LowerCaseOf} \cup {Digits[k] : k \in DOMAIN Digits} \cup {"_"}

\* replace(/[^a-z0-9_]/g, '')
KeepFieldNameCharacters(cs) == SelectSeq(cs, LAMBDA c : c \in FieldNameCharacters)

\* normalizeFieldName without its last replace
normalizeFieldNameWithoutStrip(name) ==
    ReplaceWhiteSpace(ToLowerCase(Trim(name)))

normalizeFieldName(name) ==
    KeepFieldNameCharacters(ReplaceWhiteSpace(ToLowerCase(Trim(name))))

FIELD_MAPPING ==
    [practice_name |-> "practiceName",
     charge |-> "charge",
     cpt_code |-> "cptCode",
     revenue_code |-> "revenueCode",
     loc |-> "levelOfCare",
     charge_amount |-> "chargeAmount",
     payment |-> "payment",
     allowed_amount |-> "allowedAmount",
     primary_group |-> "primaryGroup",
     claim_primary_member_id |-> "claimPrimaryID",
     payer_name |-> "payerName",
     payer_group |-> "payerGroup",
     payment_total_paid |-> "paymentTotal",
     payment_received |-> "paymentReceived",
     payment_entered |-> "paymentEntered",
     charge_from_date |-> "chargeFromDate",
     charge_to_date |-> "chargeToDate",
     primary_ins_zip |-> "primaryInsZip",
     primary_ins_city |-> "primaryInsCity",
     primary_ins_state |-> "primaryInsState",
     primary_ins_addr_1 |-> "primaryInsAddr1",
     patient_zip |-> "patientZip",
     patient_city |-> "patientCity",
     patient_state |-> "patientState",
     patient_address_1 |-> "patientAddress1"]

\* FIELD_MAPPING[normalizedHeader]: an entry of the object or, for the two
\* names of [a-z0-9_] that Object.prototype has, the inherited value, which
\* becomes a key of cleanedRow as its text
dbFieldOf(normalizedHeader) ==
    IF normalizedHeader \in DOMAIN FIELD_MAPPING THEN <<FIELD_MAPPING[normalizedHeader]>>
    ELSE IF normalizedHeader = "constructor" THEN <<"function Object() { [native code] }">>
    ELSE IF normalizedHeader = "__proto__" THEN <<"[object Object]">>
    ELSE Null

(***************************************************************************)
(* parseDate                                                               *)
(***************************************************************************)
\* new Date(year, monthIndex, day): a local calendar date; components out
\* of range roll over, so the Date is always valid
LocalDate(year, monthIndex, day) ==
    <<"Date", "local", <<IF year <= 99 THEN 1900 + year ELSE year, monthIndex, day>>>>

\* the three numbers of a text matching /^\d{1,2}\/\d{1,2}\/\d{4}$/, or <<>>
SlashDate(cs) ==
    LET month == TakeDigits(cs)
        afterMonth == Drop(cs, Len(month))
        day == TakeDigits(Drop(afterMonth, 1))
        afterDay == Drop(afterMonth, 1 + Len(day))
        year == TakeDigits(Drop(afterDay, 1))
    IN IF /\ Len(month) \in 1..2
          /\ afterMonth # <<>> /\ Head(afterMonth) = "/"
          /\ Len(day) \in 1..2
          /\ afterDay # <<>> /\ Head(afterDay) = "/"
          /\ Len(year) = 4
          /\ Len(afterDay) = 5
       THEN <<DigitsValue(month), DigitsValue(day), DigitsValue(year)>>
       ELSE <<>>

\* new Date(text) for a text of the form YYYY-MM-DD; every other text the
\* model draws is one that Date.parse rejects
ParsedDate(cs) ==
    LET year == TakeDigits(cs)
        month == TakeDigits(Drop(cs, 5))
        day == TakeDigits(Drop(cs, 8))
    IN IF /\ Len(cs) = 10 /\ cs[5] = "-" /\ cs[8] = "-"
          /\ Len(year) = 4 /\ Len(month) = 2 /\ Len(day) = 2
          /\ DigitsValue(month) \in 1..12 /\ DigitsValue(day) \in 1..31
       THEN <<"Date", "utc", <<DigitsValue(year), DigitsValue(month), DigitsValue(day)>>>>
       ELSE InvalidDate

\* the Excel serial date: setDate(30 + dateInput) on 1899-12-30, local time
ExcelDate(dateInput) == <<"Date", "days", Floor(dateInput)>>

\* parseDate of a string
parseDateString(dateInput) ==
    LET trimmedInput == Trim(dateInput)
    IN IF trimmedInput = <<>> THEN NullValue
       ELSE IF SlashDate(trimmedInput) # <<>>
       THEN LocalDate(SlashDate(trimmedInput)[3], SlashDate(trimmedInput)[1] - 1,
                                 SlashDate(trimmedInput)[2])
       ELSE IF ParsedDate(trimmedInput) # InvalidDate
       THEN ParsedDate(trimmedInput)
       ELSE NullValue

\* parseDate that takes a number below 1000 for a Unix timestamp in seconds
parseDateWithoutFloor(dateInput) ==
    CASE dateInput[1] \in {"null", "undefined"} -> NullValue
      [] dateInput[1] = "Date" ->
            IF dateInput # InvalidDate THEN dateInput ELSE NullValue
      [] dateInput[1] = "number" ->
            IF LessThan(Frac(1000, 1), dateInput[2]) /\ LessThan(dateInput[2], Frac(100000, 1))
            THEN ExcelDate(dateInput[2])
            ELSE IF LessThan(dateInput[2], Sci(1, 10))
            THEN NewDate("seconds", dateInput[2])
            ELSE NewDate("milliseconds", dateInput[2])
      [] dateInput[1] = "string" -> parseDateString(dateInput[2])
      [] OTHER -> NullValue

parseDate(dateInput) ==
    CASE dateInput[1] \in {"null", "undefined"} -> NullValue
      [] dateInput[1] = "Date" ->
            IF dateInput # InvalidDate THEN dateInput ELSE NullValue
      [] dateInput[1] = "number" ->
            IF LessThan(dateInput[2], Frac(1000, 1)) THEN NullValue
            ELSE IF LessThan(Frac(1000, 1), dateInput[2]) /\ LessThan(dateInput[2], Frac(100000, 1))
            THEN ExcelDate(dateInput[2])
            ELSE IF LessThan(dateInput[2], Sci(1, 10))
            THEN NewDate("seconds", dateInput[2])
            ELSE NewDate("milliseconds", dateInput[2])
      [] dateInput[1] = "string" -> parseDateString(dateInput[2])
      [] OTHER -> NullValue

(***************************************************************************)
(* cleanRow                                                                *)
(***************************************************************************)
numericFields == {"chargeAmount", "payment", "allowedAmount", "paymentTotal"}

stringFields ==
    {"practiceName", "charge", "cptCode", "revenueCode", "levelOfCare",
     "primaryGroup", "claimPrimaryID", "payerName", "payerGroup", "primaryInsZip",
     "primaryInsCity", "primaryInsState", "primaryInsAddr1", "patientZip",
     "patientCity", "patientState", "patientAddress1", "payerClass", "employerName",
     "prefix", "groupPolicy"}

\* value.replace(/[\$,]/g, '')
StripCurrency(cs) == SelectSeq(cs, LAMBDA c : c \notin {"$", ","})

\* the coercion of a numeric field
CoerceNumber(value) ==
    LET number == IF value[1] = "string" THEN Num(parseFloat(StripCurrency(value[2])))
                  ELSE IF value[1] \notin {"null", "undefined"} THEN Num(ToNumber(value))
                  ELSE value
    IN IF isNaN(number) THEN NullValue ELSE number

\* the coercion of a string field
CoerceString(value) ==
    IF value[1] \notin {"null", "undefined"} THEN Str(StringOf(value)) ELSE value

\* the value cleanRow stores under dbField for the raw value
Coerce(dbField, value) ==
    IF dbField \in dateFields THEN parseDate(value)
    ELSE IF dbField \in numericFields THEN CoerceNumber(value)
    ELSE IF dbField \in stringFields THEN CoerceString(value)
    ELSE value

\* row[originalHeader]
ValueOf(rw, originalHeader) ==
    IF originalHeader \in DOMAIN rw THEN rw[originalHeader] ELSE Undefined

\* cleanRow raises instead of returning: Number(value) of a numeric field
\* is applied to a value that is no string, null or undefined and that
\* Number() cannot convert; nothing in cleanRow catches it
cleanRowRaises(rw, hs) ==
    \E k \in DOMAIN hs :
        LET dbField == dbFieldOf(Text(normalizeFieldName(hs[k])))
        IN /\ dbField # Null
           /\ dbField[1] \notin dateFields
           /\ dbField[1] \in numericFields
           /\ ValueOf(rw, hs[k]) = Symbol

\* the for-of statement over headers: cleaned is cleanedRow so far
RECURSIVE CoerceFields(_, _, _)
CoerceFields(rw, hs, cleaned) ==
    IF hs = <<>> THEN cleaned
    ELSE LET originalHeader == Head(hs)
             normalizedHeader == normalizeFieldName(originalHeader)
             dbField == dbFieldOf(Text(normalizedHeader))
         IN CoerceFields(rw, Tail(hs),
                IF dbField # Null
                THEN (dbField[1] :> Coerce(dbField[1], ValueOf(rw, originalHeader))) @@ cleaned
                ELSE cleaned)

\* deriveLevelOfCare that looks at the first character of the code as it is
deriveLevelOfCareUntrimmed(revenueCode) ==
    IF revenueCode = <<>> THEN <<"U", "N", "K", "N", "O", "W", "N">>
    ELSE IF StartsWith(revenueCode, <<"1">>) THEN <<"I", "O", "P">>
    ELSE IF StartsWith(revenueCode, <<"2">>) THEN <<"P", "H", "P">>
    ELSE IF StartsWith(revenueCode, <<"3">>) THEN <<"R", "E", "S">>
    ELSE IF StartsWith(revenueCode, <<"4">>) THEN <<"D", "E", "T", "O", "X">>
    ELSE <<"O", "T", "H", "E", "R">>

deriveLevelOfCare(revenueCode) ==
    LET code == Trim(revenueCode)
    IN IF revenueCode = <<>> THEN <<"U", "N", "K", "N", "O", "W", "N">>
       ELSE IF StartsWith(code, <<"1">>) THEN <<"I", "O", "P">>
       ELSE IF StartsWith(code, <<"2">>) THEN <<"P", "H", "P">>
       ELSE IF StartsWith(code, <<"3">>) THEN <<"R", "E", "S">>
       ELSE IF StartsWith(code, <<"4">>) THEN <<"D", "E", "T", "O", "X">>
       ELSE <<"O", "T", "H", "E", "R">>

\* cleaned.field
Property(cleaned, field) == IF field \in DOMAIN cleaned THEN cleaned[field] ELSE Undefined

\* WithLevelOfCare without the else branch: no default when nothing can be derived
WithLevelOfCareNoDefault(cleaned) ==
    IF Falsy(Property(cleaned, "levelOfCare")) /\ ~Falsy(Property(cleaned, "revenueCode"))
    THEN ("levelOfCare" :> Str(deriveLevelOfCare(StringOf(cleaned["revenueCode"])))) @@ cleaned
    ELSE cleaned

\* the statement after the loop: levelOfCare is derived or set to the default
WithLevelOfCare(cleaned) ==
    IF Falsy(Property(cleaned, "levelOfCare")) /\ ~Falsy(Property(cleaned, "revenueCode"))
    THEN ("levelOfCare" :> Str(deriveLevelOfCare(StringOf(cleaned["revenueCode"])))) @@ cleaned
    ELSE IF Falsy(Property(cleaned, "levelOfCare"))
    THEN ("levelOfCare" :> Str(<<"U", "N", "K", "N", "O", "W", "N">>)) @@ cleaned
    ELSE cleaned

\* a value of cleanedRow as a cell of a record: null and undefined are the
\* empty cell, a string is written as one value
CellOf(value) ==
    IF value[1] \in {"null", "undefined"} THEN Null
    ELSE IF value[1] = "string" THEN <<Text(value[2])>>
    ELSE IF value[1] = "Date" THEN <<value>>
    ELSE <<value[2]>>

\* cleanRow(row, headers): the record it returns
cleanRow(rw, hs) ==
    LET cleaned == WithLevelOfCare(CoerceFields(rw, hs, <<>>))
    IN [field \in DOMAIN cleaned |-> CellOf(cleaned[field])]

(***************************************************************************)
(* Rows handed to cleanRow.                                                *)
(***************************************************************************)
Spread == 2
MaxCode == 5

LOC == <<"L", "O", "C">>

RevenueCode == <<"R", "e", "v", "e", "n", "u", "e", " ", "C", "o", "d", "e">>

AllowedAmount == <<" ", "A", "l", "l", "o", "w", "e", "d", " ", "A", "m", "o", "u", "n", "t", " ">>

ChargeFromDate == <<"C", "h", "a", "r", "g", "e", " ", "F", "r", "o", "m", " ", "D", "a", "t", "e">>

Notes == <<"N", "o", "t", "e", "s">>

\* headers that are no entry of FIELD_MAPPING: an ordinary one, two whose
\* normalized key is empty, and two that normalize to "constructor"
UnmappedHeaders ==
    { Notes, <<" ", " ">>, <<"#", "%">>,
      <<"c", "o", "n", "s", "t", "r", "u", "c", "t", "o", "r">>,
      <<" ", "C", "o", "n", "s", "t", "r", "u", "c", "t", "o", "r", "!">> }

LevelOfCareValues ==
    { Undefined, NullValue, Str(<<>>), Str(<<"D", "E", "T", "O", "X">>), Str(<<" ">>),
      Num(Frac(5, 1)), Num(Zero), Bool(FALSE) }

RevenueCodeValues ==
    { Undefined, NullValue, Str(<<>>), Str(<<"2", "5", "0">>), Str(<<" ", "2", "5", "0">>), Str(<<" ", " ">>),
      Str(<<"1", "A">>), Str(<<"0", "3", "0", "0">>), Str(<<"x", "4">>), Num(Zero), Num(Frac(5, 2)),
      Num(Frac(0 - 1, 1)), Bool(TRUE) }
    \cup { Num(Frac(100 * n + 50, 1)) : n \in 0..MaxCode }

CurrencyValues ==
    { Undefined, NullValue, Bool(TRUE), Str(<<>>), Str(<<"$", "1", ",", "2", "3", "4", ".", "5", "0">>), Str(<<"1", "2", "a", "b", "c">>), Str(<<"a", "b", "c">>),
      Str(<<"I", "n", "f", "i", "n", "i", "t", "y">>), Str(<<"1", "e", "9", "9", "9">>), Str(<<" ", " ", "4", "2">>), Str(<<"-", "5", ".", "2", "5">>), Str(<<"$">>), Str(<<".">>),
      Str(<<"1", ",", "0", "0", "0">>), Str(<<"1", ".", "5", "e", "3">>), Str(<<"$", "-", "7">>),
      Num(Frac(20, 1)), Num(Frac(5, 2)), Num(Zero), Num(NaN), Num(Infinity), Num(Sci(1, 16)),
      <<"Date", "milliseconds", Frac(86400000, 1)>>, InvalidDate }

\* the whole numbers around a threshold of parseDate
Around(threshold) == { Num(Frac(n, 1)) : n \in (threshold - Spread)..(threshold + Spread) }

DateValues ==
    { Undefined, NullValue, Bool(TRUE), Str(<<>>), Str(<<" ">>), Str(<<"0", "1", "/", "1", "5", "/", "2", "0", "2", "3">>), Str(<<"1", "/", "5", "/", "2", "0", "2", "3">>),
      Str(<<" ", "0", "1", "/", "1", "5", "/", "2", "0", "2", "3", " ">>), Str(<<"2", "0", "2", "3", "-", "0", "1", "-", "1", "5">>), Str(<<"a", "b", "c">>), Str(<<"1", "3", "/", "4", "5", "/", "2", "0", "2", "3">>), Str(<<"0", "1", "/", "1", "5", "/", "2", "3">>), Str(<<"2", "0", "2", "3", "-", "1", "3", "-", "0", "1">>),
      Num(Zero), Num(Frac(0 - 5, 1)), Num(Frac(1999, 2)), Num(Frac(90001, 2)),
      Num(Frac(45000, 1)), Num(Frac(1700000000, 1)), Num(Sci(9999, 6)), Num(Sci(1, 10)),
      Num(Sci(17, 11)), Num(Sci(864, 13)), Num(Sci(865, 13)), Num(Sci(1, 16)),
      Num(NaN), Num(Infinity), Num(NegativeInfinity),
      <<"Date", "milliseconds", Frac(86400000, 1)>>, InvalidDate }
    \cup Around(1000) \cup Around(100000)

\* a row that gives each header of the list the value at the same position
RowOf(hs, values) == [h \in {hs[k] : k \in DOMAIN hs} |-> values[CHOOSE k \in DOMAIN hs : hs[k] = h]]

CleanInputs ==
    { [headers |-> hs, row |-> RowOf(hs, <<l, r>>)] :
          hs \in {<<LOC, RevenueCode>>}, l \in LevelOfCareValues, r \in RevenueCodeValues }
    \cup { [headers |-> hs, row |-> RowOf(hs, <<r, l>>)] :
          hs \in {<<RevenueCode, LOC>>}, l \in {NullValue, Str(<<>>), Str(<<"D", "E", "T", "O", "X">>)},
          r \in RevenueCodeValues }
    \cup { [headers |-> <<Notes, RevenueCode>>, row |-> RowOf(<<Notes, RevenueCode>>, <<Str(<<"2", "5", "0">>), r>>)] :
          r \in RevenueCodeValues }
    \cup { [headers |-> <<AllowedAmount>>, row |-> RowOf(<<AllowedAmount>>, <<v>>)] :
          v \in CurrencyValues }
    \cup { [headers |-> <<ChargeFromDate>>, row |-> RowOf(<<ChargeFromDate>>, <<v>>)] :
          v \in DateValues }
    \cup { [headers |-> <<h, LOC>>, row |-> RowOf(<<h, LOC>>, <<Str(<<"x">>), Str(<<"D", "E", "T", "O", "X">>)>>)] :
          h \in UnmappedHeaders }
    \cup { [headers |-> <<>>, row |-> <<>>] }

(***************************************************************************)
(* cleanRow applied to one row.                                            *)
(***************************************************************************)
CleanRow ==
    /\ cleanedRow = Null
    /\ \E input \in CleanInputs : headers = input.headers /\ row = input.row
    /\ cleanedRow' = <<cleanRow(row, headers)>>
    /\ UNCHANGED <<storeVars, saveVars, metricsVars, uploadVars, headers, row, nameVars, loaderVars>>

(***************************************************************************)
(* normalizeFieldName applied to a header text, and to its own result.     *)
(***************************************************************************)
MaxName == 3

\* an upper and a lower case letter, a digit, the underscore, white space,
\* punctuation and letters outside ASCII
NameCharacters == {"A", "b", "7", "_", " ", "\t", "U+00A0", "-", "U+212A", "U+00C9"}

RECURSIVE NamesOfLength(_)
NamesOfLength(n) ==
    IF n = 0 THEN {<<>>}
    ELSE {<<c>> \o cs : c \in NameCharacters, cs \in NamesOfLength(n - 1)}

FieldNames == UNION {NamesOfLength(n) : n \in 0..MaxName}

Normalize ==
    /\ normalized = <<>>
    /\ normalized' = <<normalizeFieldName(fieldName)>>
    /\ UNCHANGED <<storeVars, saveVars, metricsVars, uploadVars, headers, row, cleanedRow, fieldName, loaderVars>>

NormalizeAgain ==
    /\ Len(normalized) = 1
    /\ normalized' = Append(normalized, normalizeFieldName(normalized[1]))
    /\ UNCHANGED <<storeVars, saveVars, metricsVars, uploadVars, headers, row, cleanedRow, fieldName, loaderVars>>

(***************************************************************************)
(* parseCSV and parseExcel                                                 *)
(*                                                                         *)
(* An uploaded file is <<>> when the request has none, and otherwise a     *)
(* record with its name and what the parsing library reads from it: the    *)
(* fields and the rows of Papa.parse for a CSV file, the rows of           *)
(* sheet_to_json (header: 1) for a workbook that XLSX.read can read.       *)
(***************************************************************************)
\* the result of a parse: headers, data and the preview of the first ten
ParseResult(hs, cleanedData) ==
    [headers |-> hs, data |-> cleanedData, previewData |-> Slice(cleanedData, 0, 10)]

\* the chunk callback of Papa.parse, called once with all rows: its try
\* statement encloses the map over the rows and the push of its result, so
\* that nothing of the chunk is pushed when cleanRow raises on a row
parseCSV(f) ==
    LET withKeys == SelectSeq(f.rows, LAMBDA r : DOMAIN r # {})
    IN IF \E k \in DOMAIN withKeys : cleanRowRaises(withKeys[k], f.fields)
       THEN ParseResult(f.fields, <<>>)
       ELSE ParseResult(f.fields, [k \in DOMAIN withKeys |-> cleanRow(withKeys[k], f.fields)])

\* (rawData[0] || []).map(h => h ? String(h).trim() : '').filter(Boolean)
ExcelHeaders(rawData) ==
    LET first == IF rawData # <<>> THEN rawData[1] ELSE <<>>
        texts == [k \in DOMAIN first |->
                     IF ~Falsy(first[k]) THEN Trim(StringOf(first[k])) ELSE <<>>]
    IN SelectSeq(texts, LAMBDA h : h # <<>>)

\* headers.forEach((header, index) => { if (index < row.length) rowData[header] = row[index] })
RowData(hs, cells) ==
    LET indexes == {k \in DOMAIN hs : k <= Len(cells)}
    IN [h \in {hs[k] : k \in indexes} |->
           cells[CHOOSE k \in indexes : hs[k] = h /\ \A n \in indexes : hs[n] = h => n <= k]]

\* the loop over the data rows: its try statement encloses one row
RECURSIVE ExcelRows(_, _)
ExcelRows(rows, hs) ==
    IF rows = <<>> THEN <<>>
    ELSE IF Len(Head(rows)) = 0 THEN ExcelRows(Tail(rows), hs)
    ELSE IF cleanRowRaises(RowData(hs, Head(rows)), hs) THEN ExcelRows(Tail(rows), hs)
    ELSE <<cleanRow(RowData(hs, Head(rows)), hs)>> \o ExcelRows(Tail(rows), hs)

\* parseExcel: a record with the field thrown when it throws
parseExcel(f) ==
    IF ~f.readable THEN [thrown |-> "XLSX.read failed"]
    ELSE IF Len(f.rawData) < 2
    THEN [thrown |-> "File does not contain enough data (needs headers and at least one row)"]
    ELSE IF Len(ExcelHeaders(f.rawData)) = 0
    THEN [thrown |-> "No valid headers found in the Excel file"]
    ELSE ParseResult(ExcelHeaders(f.rawData), ExcelRows(Tail(f.rawData), ExcelHeaders(f.rawData)))

(***************************************************************************)
(* The upload action                                                       *)
(***************************************************************************)
\* fileName.split('.').pop()
RECURSIVE LastSegment(_)
LastSegment(name) ==
    IF \E k \in DOMAIN name : name[k] = "."
    THEN LastSegment(Drop(name, CHOOSE k \in DOMAIN name : name[k] = "." /\ \A n \in 1..(k - 1) : name[n] # "."))
    ELSE name

fileExtension(f) == Text(ToLowerCase(LastSegment(f.name)))

\* the file as the parser of its extension returns it
Parsed(f) == IF fileExtension(f) = "csv" THEN parseCSV(f) ELSE parseExcel(f)

ErrorResponse(status, message) == [status |-> status, error |-> message]

SuccessResponse(parsed, computed) ==
    [status |-> 200, success |-> TRUE,
     message |-> "Successfully processed " \o Text(NatToString(Len(parsed.data))) \o " records.",
     previewData |-> parsed.previewData, headers |-> parsed.headers, metrics |-> computed]

\* return json(...)
Respond(response) ==
    /\ responses' = Append(responses, response)
    /\ u_pc' = "done"

\* the action once the file is there, parsed being what its parser returns
\* or throws
Dispatch(f, parsed) ==
    IF fileExtension(f) \notin {"csv", "xlsx", "xls"}
    THEN /\ Respond(ErrorResponse(400, "Unsupported file format. Please upload CSV or Excel files."))
         /\ parsedData' = Null
         /\ UNCHANGED <<storeVars, saveVars, metricsVars>>
    ELSE IF "thrown" \in DOMAIN parsed
    THEN /\ Respond(ErrorResponse(400, "Error parsing file: " \o parsed.thrown))
         /\ parsedData' = Null
         /\ UNCHANGED <<storeVars, saveVars, metricsVars>>
    ELSE IF Len(parsed.data) = 0
    THEN /\ Respond(ErrorResponse(400, "No valid data found in the uploaded file."))
         /\ parsedData' = <<parsed>>
         /\ UNCHANGED <<storeVars, saveVars, metricsVars>>
    ELSE /\ parsedData' = <<parsed>>
         /\ u_pc' = "save"
         /\ responses' = responses
         /\ SaveStart(parsed.data)

\* UploadStart that saves whatever the parser returned, an empty list too
UploadStartWithoutDataCheck(f) ==
    /\ u_pc \in {"idle", "done"}
    /\ file' = f
    /\ IF f = Null
       THEN /\ Respond(ErrorResponse(400, "No file uploaded"))
            /\ parsedData' = Null
            /\ UNCHANGED <<storeVars, saveVars, metricsVars>>
       ELSE IF fileExtension(f) \notin {"csv", "xlsx", "xls"}
       THEN /\ Respond(ErrorResponse(400, "Unsupported file format. Please upload CSV or Excel files."))
            /\ parsedData' = Null
            /\ UNCHANGED <<storeVars, saveVars, metricsVars>>
       ELSE IF "thrown" \in DOMAIN Parsed(f)
       THEN /\ Respond(ErrorResponse(400, "Error parsing file: " \o Parsed(f).thrown))
            /\ parsedData' = Null
            /\ UNCHANGED <<storeVars, saveVars, metricsVars>>
       ELSE /\ parsedData' = <<Parsed(f)>>
            /\ u_pc' = "save"
            /\ responses' = responses
            /\ SaveStart(Parsed(f).data)
    /\ UNCHANGED cleanVars

\* the action from the request to the call of saveDataToDatabase
UploadStart(f) ==
    /\ u_pc \in {"idle", "done"}
    /\ file' = f
    /\ IF f = Null
       THEN /\ Respond(ErrorResponse(400, "No file uploaded"))
            /\ parsedData' = Null
            /\ UNCHANGED <<storeVars, saveVars, metricsVars>>
       ELSE Dispatch(f, Parsed(f))
    /\ UNCHANGED cleanVars

\* saveDataToDatabase has ended: the error response when it raised,
\* otherwise the call of calculateMetrics()
UploadSaved ==
    /\ u_pc = "save"
    /\ s_pc = "done"
    /\ IF s_outcome = "raised"
       THEN /\ Respond(ErrorResponse(500, "Error saving to database"))
            /\ UNCHANGED <<storeVars, saveVars, metricsVars>>
       ELSE /\ u_pc' = "metrics"
            /\ responses' = responses
            /\ MetricsStart(<<>>)
    /\ UNCHANGED <<file, parsedData, cleanVars>>

\* calculateMetrics has ended: the success response, with no metrics when it raised
UploadDone ==
    /\ u_pc = "metrics"
    /\ m_pc = "done"
    /\ Respond(SuccessResponse(parsedData[1], IF m_outcome = "raised" THEN <<>> ELSE results))
    /\ UNCHANGED <<storeVars, saveVars, metricsVars, file, parsedData, cleanVars>>

\* the files of the upload requests
PayerName == <<"P", "a", "y", "e", "r", " ", "N", "a", "m", "e">>

CsvFile(rows) ==
    [name |-> <<"c", "l", "a", "i", "m", "s", ".", "C", "S", "V">>, fields |-> <<LOC, AllowedAmount, PayerName>>, rows |-> rows]

ExcelFile(readable, rawData) ==
    [name |-> <<"c", "l", "a", "i", "m", "s", ".", "v", "2", ".", "x", "l", "s", "x">>, readable |-> readable, rawData |-> rawData]

CsvRows ==
    << RowOf(<<LOC, AllowedAmount, PayerName>>, <<Str(<<"D", "E", "T", "O", "X">>), Num(Frac(20, 1)), Str(<<"A">>)>>),
       RowOf(<<LOC, AllowedAmount, PayerName>>, <<NullValue, Str(<<"$", "1", ",", "2", "3", "4", ".", "5", "0">>), Str(<<"B">>)>>) >>

\* a row on which cleanRow raises, between two rows on which it does not
RaisingCsvRows ==
    << CsvRows[1],
       RowOf(<<LOC, AllowedAmount, PayerName>>, <<Str(<<"R", "E", "S">>), Symbol, Str(<<"C">>)>>),
       CsvRows[2] >>

ExcelHeaderRow == <<Str(LOC), NullValue, Str(AllowedAmount)>>

ExcelDataRows ==
    << <<Str(<<"D", "E", "T", "O", "X">>), Str(<<"x">>), Str(<<"2", "0">>)>>,
       <<Str(<<"I", "O", "P">>), NullValue, Str(<<"$", "1", ",", "2", "3", "4", ".", "5", "0">>)>> >>

RaisingExcelRows ==
    << ExcelDataRows[1], <<Str(<<"R", "E", "S">>), Symbol, NullValue>>, ExcelDataRows[2] >>

Files ==
    { Null,
      [name |-> <<"c", "l", "a", "i", "m", "s", ".", "t", "x", "t">>],
      ExcelFile(FALSE, <<>>),
      ExcelFile(TRUE, <<>>),
      ExcelFile(TRUE, <<ExcelHeaderRow>>),
      ExcelFile(TRUE, <<<<NullValue, Str(<<" ">>)>>, ExcelDataRows[1]>>),
      ExcelFile(TRUE, <<ExcelHeaderRow, <<>>>>) }
    \cup { CsvFile(SubSeq(CsvRows, 1, n)) : n \in 0..Len(CsvRows) }
    \cup { CsvFile(RaisingCsvRows), ExcelFile(TRUE, <<ExcelHeaderRow>> \o RaisingExcelRows) }
    \cup { ExcelFile(TRUE, <<ExcelHeaderRow>> \o SubSeq(ExcelDataRows, 1, n)) : n \in 1..Len(ExcelDataRows) }

(***************************************************************************)
(* The dashboard loader                                                    *)
(* The parameters of a request are texts, empty for a parameter the URL    *)
(* does not have.                                                          *)
(***************************************************************************)
\* parseInt(text): the whole number the text starts with, NaN without one
parseInt(cs) ==
    LET text == TrimStart(cs)
        negative == StartsWith(text, <<"-">>)
        unsigned == IF negative \/ StartsWith(text, <<"+">>) THEN Tail(text) ELSE text
        digits == TakeDigits(unsigned)
    IN IF digits = <<>> THEN NaN
       ELSE Frac(IF negative THEN 0 - DigitsValue(digits) ELSE DigitsValue(digits), 1)

\* url.searchParams.get(name) ? parseInt(url.searchParams.get(name)) : 0
YearOf(param) == IF param # <<>> THEN parseInt(param) ELSE Zero

\* { gte: new Date(`${year}-01-01`), lt: new Date(`${year + 1}-01-01`) }
YearRange(year) ==
    [gte |-> DateValue(Text(NatToString(year)) \o "-01-01"),
     lt |-> DateValue(Text(NatToString(year + 1)) \o "-01-01")]

\* if (value) filters[name] = value, for a text and for a year
TextFilter(name, param) == IF param # <<>> THEN (name :> Text(param)) ELSE <<>>

YearFilter(name, param) ==
    IF ~IsNaN(YearOf(param)) /\ YearOf(param) # Zero
    THEN (name :> YearRange(YearOf(param)[1])) ELSE <<>>

\* the filter object the loader builds from the parameters of the request
LoaderFilters(params) ==
    TextFilter("patientState", params.stateTreatedAt)
    @@ TextFilter("payerName", params.payerName)
    @@ TextFilter("payerClass", params.payerClass)
    @@ TextFilter("employerName", params.employerName)
    @@ TextFilter("prefix", params.prefix)
    @@ TextFilter("groupPolicy", params.groupPolicy)
    @@ TextFilter("primaryInsState", params.policyHolderState)
    @@ YearFilter("chargeFromDate", params.serviceYear)
    @@ YearFilter("paymentReceived", params.paymentReceivedYear)

\* the loader up to its call of calculateMetrics(filters); an empty record
\* store redirects to /upload before any filter is built
LoadDashboard(params) ==
    /\ Len(records) > 0
    /\ loads' = Append(loads, LoaderFilters(params))
    /\ MetricsStart(LoaderFilters(params))
    /\ UNCHANGED <<uploadVars, headers, row, cleanedRow, nameVars>>

\* requests that set some of state, payer, payer class, service year and
\* payment-received year
LoaderParams ==
    [stateTreatedAt : {<<>>, <<"T", "X">>}, payerName : {<<>>, <<"A">>},
     payerClass : {<<>>, <<"P", "P", "O">>}, employerName : {<<>>}, prefix : {<<>>},
     groupPolicy : {<<>>}, policyHolderState : {<<>>},
     serviceYear : {<<>>, <<"2", "0", "2", "3">>}, paymentReceivedYear : {<<>>, <<"2", "0", "2", "4">>}]

\* the record store the dashboard is loaded over
DashboardStore ==
    << [levelOfCare |-> <<"DETOX">>, payerName |-> <<"A">>, payerClass |-> <<"PPO">>,
        patientState |-> <<"TX">>, allowedAmount |-> <<Frac(20, 1)>>,
        chargeFromDate |-> <<DateValue("2023-01-15")>>, paymentReceived |-> <<DateValue("2024-03-01")>>],
       [levelOfCare |-> <<"DETOX">>, payerName |-> <<"B">>, patientState |-> <<"TX">>,
        allowedAmount |-> <<Frac(5, 2)>>, chargeFromDate |-> <<DateValue("2023-12-31")>>,
        paymentReceived |-> Null],
       [levelOfCare |-> <<"IOP">>, payerName |-> <<"A">>, allowedAmount |-> <<Frac(10, 1)>>,
        chargeFromDate |-> <<DateValue("2022-06-30")>>, paymentReceived |-> <<DateValue("2023-01-15")>>] >>

(***************************************************************************)
(* Specifications.                                                         *)
(***************************************************************************)
\* no request is being handled
Idle ==
    /\ s_pc = "idle"
    /\ data = <<>>
    /\ i = 0
    /\ j = 0
    /\ savedCount = 0
    /\ s_outcome = "none"
    /\ log = <<>>
    /\ saves = 0
    /\ m_pc = "idle"
    /\ filters = <<>>
    /\ b = 1
    /\ count = 0
    /\ results = <<>>
    /\ m_outcome = "none"
    /\ countFailed = {}
    /\ fetchFailed = {}
    /\ upsertFailed = {}
    /\ fetched = {}
    /\ upserted = {}
    /\ runs = 0
    /\ u_pc = "idle"
    /\ file = Null
    /\ parsedData = Null
    /\ responses = <<>>

\* no row has been handed to cleanRow
NoRow ==
    /\ headers = <<>>
    /\ row = <<>>
    /\ cleanedRow = <<>>
    /\ fieldName = <<>>
    /\ normalized = <<>>
    /\ loads = <<>>

\* both stores are empty and nothing has been called
Init ==
    /\ records = <<>>
    /\ summaries = <<>>
    /\ faults = 0
    /\ Idle
    /\ NoRow

\* The upload action awaits saveDataToDatabase before it calls
\* calculateMetrics; the dashboard loader calls calculateMetrics later on.
SaveQuiet == s_pc \in {"idle", "done"}

Next ==
    \/ \E d \in SmallInputs : m_pc = "idle" /\ saves = 0 /\ SaveStart(d) /\ UNCHANGED <<uploadVars, cleanVars>>
    \/ CreateManyOk /\ UNCHANGED <<uploadVars, cleanVars>>
    \/ CreateManyFail /\ UNCHANGED <<uploadVars, cleanVars>>
    \/ CreateOk /\ UNCHANGED <<uploadVars, cleanVars>>
    \/ CreateFail /\ UNCHANGED <<uploadVars, cleanVars>>
    \/ \E f \in FilterSets : SaveQuiet /\ MetricsStart(f) /\ UNCHANGED <<uploadVars, cleanVars>>
    \/ CountOk /\ UNCHANGED <<uploadVars, cleanVars>>
    \/ CountFail /\ UNCHANGED <<uploadVars, cleanVars>>
    \/ FindManyOk /\ UNCHANGED <<uploadVars, cleanVars>>
    \/ FindManyFail /\ UNCHANGED <<uploadVars, cleanVars>>
    \/ UpsertOk /\ UNCHANGED <<uploadVars, cleanVars>>
    \/ UpsertFail /\ UNCHANGED <<uploadVars, cleanVars>>

Spec == Init /\ [][Next]_vars

\* the batch persister alone, on inputs around the batch boundaries
NextSave ==
    \/ \E d \in BatchInputs : saves = 0 /\ SaveStart(d) /\ UNCHANGED <<uploadVars, cleanVars>>
    \/ CreateManyOk /\ UNCHANGED <<uploadVars, cleanVars>>
    \/ CreateManyFail /\ UNCHANGED <<uploadVars, cleanVars>>
    \/ CreateOk /\ UNCHANGED <<uploadVars, cleanVars>>
    \/ CreateFail /\ UNCHANGED <<uploadVars, cleanVars>>

SpecSave == Init /\ [][NextSave]_vars

\* one upload request and then, possibly, the same file uploaded once more
NextUpload ==
    \/ \E f \in Files :
           /\ \/ u_pc = "idle"
              \/ u_pc = "done" /\ Len(responses) = 1 /\ f = file
           /\ UploadStart(f)
    \/ CreateManyOk /\ UNCHANGED <<uploadVars, cleanVars>>
    \/ CreateManyFail /\ UNCHANGED <<uploadVars, cleanVars>>
    \/ CreateOk /\ UNCHANGED <<uploadVars, cleanVars>>
    \/ CreateFail /\ UNCHANGED <<uploadVars, cleanVars>>
    \/ UploadSaved
    \/ CountOk /\ UNCHANGED <<uploadVars, cleanVars>>
    \/ CountFail /\ UNCHANGED <<uploadVars, cleanVars>>
    \/ FindManyOk /\ UNCHANGED <<uploadVars, cleanVars>>
    \/ FindManyFail /\ UNCHANGED <<uploadVars, cleanVars>>
    \/ UpsertOk /\ UNCHANGED <<uploadVars, cleanVars>>
    \/ UpsertFail /\ UNCHANGED <<uploadVars, cleanVars>>
    \/ UploadDone

SpecUpload == Init /\ [][NextUpload]_vars

\* a record store of one bucket, given by the allowed amounts of its records
MaxAmounts == 4

AmountCells ==
    { Null, <<Frac(5, 1)>>, <<Frac(10, 1)>>, <<Frac(15, 1)>>, <<Frac(20, 1)>>,
      <<Frac(30, 1)>>, <<Frac(5, 2)>> }

AmountStores ==
    UNION { [1..n -> {[levelOfCare |-> <<"DETOX">>, allowedAmount |-> a] : a \in AmountCells}] :
                n \in 0..MaxAmounts }

\* calculateMetrics() alone, once, over a store that earlier uploads filled
InitStats ==
    /\ records \in AmountStores
    /\ summaries = <<>>
    /\ faults = 0
    /\ Idle
    /\ NoRow

NextStats ==
    \/ runs = 0 /\ MetricsStart(<<>>) /\ UNCHANGED <<uploadVars, cleanVars>>
    \/ CountOk /\ UNCHANGED <<uploadVars, cleanVars>>
    \/ FindManyOk /\ UNCHANGED <<uploadVars, cleanVars>>
    \/ UpsertOk /\ UNCHANGED <<uploadVars, cleanVars>>

SpecStats == InitStats /\ [][NextStats]_vars

\* cleanRow alone, on one row
InitClean ==
    /\ records = <<>>
    /\ summaries = <<>>
    /\ faults = 0
    /\ Idle
    /\ \E input \in CleanInputs : headers = input.headers /\ row = input.row
    /\ cleanedRow = Null
    /\ fieldName = <<>>
    /\ normalized = <<>>
    /\ loads = <<>>

NextClean ==
    \/ CleanRow

SpecClean == InitClean /\ [][NextClean]_vars

\* the dashboard loaded up to MaxRuns times over a record store
InitDashboard ==
    /\ records = DashboardStore
    /\ summaries = <<>>
    /\ faults = 0
    /\ Idle
    /\ NoRow

NextDashboard ==
    \/ \E params \in LoaderParams : LoadDashboard(params)
    \/ CountOk /\ UNCHANGED <<uploadVars, cleanVars>>
    \/ FindManyOk /\ UNCHANGED <<uploadVars, cleanVars>>
    \/ UpsertOk /\ UNCHANGED <<uploadVars, cleanVars>>
    \/ UpsertFail /\ UNCHANGED <<uploadVars, cleanVars>>

SpecDashboard == InitDashboard /\ [][NextDashboard]_vars

\* one calculateMetrics call and the saveDataToDatabase call of another
\* request: both await every query, so that their queries interleave in
\* any order
InitInterleaved ==
    /\ records = <<[levelOfCare |-> <<"DETOX">>, payerName |-> <<"A">>, allowedAmount |-> <<Frac(20, 1)>>]>>
    /\ summaries = <<>>
    /\ faults = 0
    /\ Idle
    /\ NoRow

NextInterleaved ==
    \/ runs = 0 /\ MetricsStart(<<>>) /\ UNCHANGED <<uploadVars, cleanVars>>
    \/ \E d \in SmallInputs : saves = 0 /\ SaveStart(d) /\ UNCHANGED <<uploadVars, cleanVars>>
    \/ CreateManyOk /\ UNCHANGED <<uploadVars, cleanVars>>
    \/ CountOk /\ UNCHANGED <<uploadVars, cleanVars>>
    \/ FindManyOk /\ UNCHANGED <<uploadVars, cleanVars>>
    \/ UpsertOk /\ UNCHANGED <<uploadVars, cleanVars>>

SpecInterleaved == InitInterleaved /\ [][NextInterleaved]_vars

\* normalizeFieldName alone, on one header text
InitNormalize ==
    /\ records = <<>>
    /\ summaries = <<>>
    /\ faults = 0
    /\ Idle
    /\ headers = <<>>
    /\ row = <<>>
    /\ cleanedRow = Null
    /\ fieldName \in FieldNames
    /\ normalized = <<>>
    /\ loads = <<>>

NextNormalize ==
    \/ Normalize
    \/ NormalizeAgain

SpecNormalize == InitNormalize /\ [][NextNormalize]_vars

(***************************************************************************)
(* Properties of calculateMetrics, checked under Spec.                     *)
(***************************************************************************)
\* the where clause of bucket loc in the current run
WhereOf(loc) == filters @@ [levelOfCare |-> loc]

\* what the run returns for bucket loc when no query of the bucket fails
NoFailureMetrics(loc) ==
    IF CountRows(records, WhereOf(loc)) = 0
    THEN ZeroMetrics(loc, 0, filters)
    ELSE ComputedMetrics(loc, CountRows(records, WhereOf(loc)), filters,
                         FindManyAllowedAmount(records, WhereOf(loc)))

\* a stored summary row carries every value of a returned summary
RowEquals(stored, summary) ==
    /\ ValidMetricsData(summary)
    /\ \A c \in DOMAIN summary : stored[c] = <<summary[c]>>

NoFailureInRun == countFailed \cup fetchFailed \cup upsertFailed = {}

\* C1: calculateMetrics never raises, whatever queries and upserts fail, and
\* returns exactly five summaries, one per bucket, in the order DETOX, RES,
\* PHP, IOP, OTHER.
C1_FiveSummariesNeverRaises ==
    /\ m_outcome # "raised"
    /\ Len(results) <= Len(levelsOfCare)
    /\ \A k \in DOMAIN results : results[k].levelOfCare = levelsOfCare[k]
    /\ m_pc = "done" => m_outcome = "returned" /\ Len(results) = Len(levelsOfCare)

C1_Witness ==
    /\ m_pc = "done"
    /\ filters = <<>>
    /\ countFailed # {}
    /\ fetchFailed \cup upsertFailed # {}
    /\ Len(results) = 5

\* C2 (as claimed): the summary store never holds two rows with the same
\* bucket and the same filter dimensions.
C2_OneRowPerKey ==
    \A p, q \in DOMAIN summaries :
        p # q => \E k \in DOMAIN UniqueKeyColumns :
                    summaries[p][UniqueKeyColumns[k]] # summaries[q][UniqueKeyColumns[k]]

\* C3 (as claimed): after a run without store failure every one of the five
\* buckets, zero-count buckets included, has a stored row equal to the
\* summary returned for it.
C3_EveryBucketStored ==
    (m_pc = "done" /\ NoFailureInRun) =>
        \A k \in DOMAIN results :
            \E r \in DOMAIN summaries : RowEquals(summaries[r], results[k])

\* C3 (amended): after a run without store failure, every bucket with a
\* non-zero count had one upsert, and a stored row equals the summary
\* returned for it; for a zero-count bucket neither a fetch nor an upsert was
\* issued.
C3_NonZeroBucketsStored ==
    (m_pc = "done" /\ NoFailureInRun) =>
        \A k \in DOMAIN results :
            IF results[k].recordCount > 0
            THEN /\ levelsOfCare[k] \in upserted
                 /\ \E r \in DOMAIN summaries : RowEquals(summaries[r], results[k])
            ELSE /\ levelsOfCare[k] \notin upserted
                 /\ levelsOfCare[k] \notin fetched

C3_Witness ==
    /\ m_pc = "done"
    /\ NoFailureInRun
    /\ results[1].recordCount > 0
    /\ results[2].recordCount = 0
    /\ \E r \in DOMAIN summaries : RowEquals(summaries[r], results[1])

\* C4 (as claimed): a bucket whose count or fetch failed gets the zero-valued
\* summary with recordCount 0, and every other bucket the summary it gets
\* without failure.
C4_FailedBucketAllZero ==
    m_pc = "done" =>
        \A k \in DOMAIN results :
            IF levelsOfCare[k] \in countFailed \cup fetchFailed
            THEN results[k] = ZeroMetrics(levelsOfCare[k], 0, filters)
            ELSE results[k] = NoFailureMetrics(levelsOfCare[k])

\* C4 (amended): a bucket whose count failed gets recordCount 0 and all
\* statistics 0; a bucket whose fetch failed gets all statistics 0 and the
\* recordCount that was counted (non-zero); every other bucket gets the
\* summary it gets without failure.
C4_FailedBucketZeroStatistics ==
    m_pc = "done" =>
        \A k \in DOMAIN results :
            IF levelsOfCare[k] \in countFailed
            THEN results[k] = ZeroMetrics(levelsOfCare[k], 0, filters)
            ELSE IF levelsOfCare[k] \in fetchFailed
            THEN /\ CountRows(records, WhereOf(levelsOfCare[k])) > 0
                 /\ results[k] = ZeroMetrics(levelsOfCare[k],
                                     CountRows(records, WhereOf(levelsOfCare[k])), filters)
            ELSE results[k] = NoFailureMetrics(levelsOfCare[k])

C4_Witness ==
    /\ m_pc = "done"
    /\ filters = <<>>
    /\ "DETOX" \in fetchFailed
    /\ "IOP" \in countFailed
    /\ CountRows(records, WhereOf("IOP")) > 0

\* C5: when the upsert of a bucket fails, the bucket's entry in results is
\* the summary computed in memory, and the remaining buckets are processed:
\* the run ends with the five entries in order.
C5_UpsertFailureKeepsEntry ==
    /\ Len(results) <= Len(levelsOfCare)
    /\ \A k \in DOMAIN results :
          levelsOfCare[k] \in upsertFailed =>
              /\ results[k].levelOfCare = levelsOfCare[k]
              /\ results[k] = ComputedMetrics(levelsOfCare[k],
                                  CountRows(records, WhereOf(levelsOfCare[k])), filters,
                                  FindManyAllowedAmount(records, WhereOf(levelsOfCare[k])))
    /\ (m_pc = "done" /\ upsertFailed # {}) =>
          /\ Len(results) = Len(levelsOfCare)
          /\ \A k \in DOMAIN results : results[k].levelOfCare = levelsOfCare[k]

C5_Witness ==
    /\ m_pc = "done"
    /\ filters = <<>>
    /\ "DETOX" \in upsertFailed
    /\ results[1].recordCount > 0
    /\ results[1].averageAllowedAmount # Zero
    /\ results[4].recordCount > 0

\* C6: a bucket with no record matching its where clause gets recordCount 0
\* and every statistic 0, and no fetch is issued for it.
C6_ZeroCountBucket ==
    \A k \in DOMAIN results :
        CountRows(records, WhereOf(levelsOfCare[k])) = 0 =>
            /\ results[k] = ZeroMetrics(levelsOfCare[k], 0, filters)
            /\ levelsOfCare[k] \notin fetched

C6_Witness ==
    /\ m_pc = "done"
    /\ ValidWhere(WhereOf("DETOX"))
    /\ countFailed = {}
    /\ CountRows(records, WhereOf("DETOX")) > 0
    /\ CountRows(records, WhereOf("RES")) = 0
    /\ fetched = {"DETOX"}

(***************************************************************************)
(* Properties of saveDataToDatabase, checked under SpecSave.               *)
(***************************************************************************)
\* the positions in log of the bulk inserts, in order
RECURSIVE BulkPositions(_, _)
BulkPositions(l, p) ==
    IF p > Len(l) THEN <<>>
    ELSE IF l[p].op = "createMany" THEN <<p>> \o BulkPositions(l, p + 1)
         ELSE BulkPositions(l, p + 1)

\* the number of records stored by the successful inserts of log
RECURSIVE SavedByLog(_)
SavedByLog(l) ==
    IF l = <<>> THEN 0
    ELSE (IF Head(l).ok THEN Head(l).n ELSE 0) + SavedByLog(Tail(l))

\* Math.ceil(n / batchSize)
CeilDiv(n, d) == (n + d - 1) \div d

\* C7: after a failed bulk insert every record of that batch is attempted
\* individually, once and in order, whatever the outcome of the earlier
\* individual attempts; savedCount is the total size of the batches whose
\* bulk insert succeeded plus the number of successful individual inserts.
C7_FallbackAttemptsEachRecordOnce ==
    /\ \A p \in DOMAIN log :
          (log[p].op = "createMany" /\ ~log[p].ok) =>
              /\ \A q \in 1..log[p].n :
                    p + q <= Len(log) =>
                        /\ log[p + q].op = "create"
                        /\ log[p + q].at = log[p].at + q - 1
              /\ p + log[p].n + 1 <= Len(log) => log[p + log[p].n + 1].op = "createMany"
              /\ s_pc = "done" => p + log[p].n <= Len(log)
    /\ \A p, q \in DOMAIN log :
          (log[p].op = "create" /\ log[q].op = "create" /\ p # q) => log[p].at # log[q].at
    /\ savedCount = SavedByLog(log)

C7_Witness ==
    /\ s_pc = "done"
    /\ \E p \in DOMAIN log :
          /\ log[p].op = "createMany" /\ ~log[p].ok /\ log[p].n = batchSize
          /\ \E q \in 1..(batchSize - 1) :
                /\ log[p + q].op = "create" /\ ~log[p + q].ok
                /\ log[p + q + 1].op = "create" /\ log[p + q + 1].ok
    /\ \E p \in DOMAIN log : log[p].op = "createMany" /\ log[p].ok
    /\ savedCount = Len(data) - 1

\* C8: for an input of n records exactly ceil(n / 50) bulk inserts are
\* attempted, one per batch and in input order, whatever the outcomes of the
\* earlier batches.
C8_EveryBatchAttempted ==
    LET bulk == BulkPositions(log, 1)
    IN /\ \A k \in DOMAIN bulk :
             /\ log[bulk[k]].at = (k - 1) * batchSize
             /\ log[bulk[k]].n = Min2(batchSize, Len(data) - (k - 1) * batchSize)
       /\ s_pc = "done" => Len(bulk) = CeilDiv(Len(data), batchSize)

C8_Witness ==
    /\ s_pc = "done"
    /\ Len(data) > 2 * batchSize
    /\ Len(BulkPositions(log, 1)) = 3
    /\ ~log[1].ok
    /\ \E p \in DOMAIN log : log[p].op = "create" /\ ~log[p].ok

\* how far a call has got: twice the number of records dealt with, plus one
\* inside the fallback loop
Progress == 2 * (i + j) + (IF s_pc = "create" THEN 1 ELSE 0)

\* a step of a running call moves it forward, within the input's bound
RunningCallAdvances ==
    s_pc \in {"createMany", "create"} =>
        (Progress' > Progress /\ Progress' <= 2 * (Len(data) + batchSize))

\* C9: saveDataToDatabase never raises when some bulk inserts and some
\* individual inserts fail, and it ends by returning normally; it terminates
\* because every step of a running call, failed inserts included, moves it
\* forward through the input, which is finite.
C9_NeverRaisesOnPartialFailure ==
    /\ [](s_outcome # "raised")
    /\ [](s_pc = "done" => s_outcome = "returned")
    /\ [][RunningCallAdvances]_vars

C9_Witness ==
    /\ s_pc = "done"
    /\ s_outcome = "returned"
    /\ \E p \in DOMAIN log : log[p].op = "createMany" /\ ~log[p].ok
    /\ \E p \in DOMAIN log : log[p].op = "createMany" /\ log[p].ok
    /\ \E p \in DOMAIN log : log[p].op = "create" /\ ~log[p].ok
    /\ \E p \in DOMAIN log : log[p].op = "create" /\ log[p].ok

\* C10 (as claimed): when every bulk insert and every individual insert of a
\* non-empty input fails, saveDataToDatabase raises to its caller.
C10_TotalFailureRaises ==
    (s_pc = "done" /\ Len(data) > 0 /\ \A p \in DOMAIN log : ~log[p].ok) =>
        s_outcome = "raised"

\* the sizes of the batches given to the bulk inserts of log, in order
BatchSizes == [k \in DOMAIN BulkPositions(log, 1) |-> log[BulkPositions(log, 1)[k]].n]

RECURSIVE SumOf(_)
SumOf(ns) == IF ns = <<>> THEN 0 ELSE Head(ns) + SumOf(Tail(ns))

\* C11: the input is cut into consecutive batches of exactly 50 records, the
\* last one holding 1 to 50: each batch starts where the previous one ended,
\* so every record is in exactly one batch and the batches in order make up
\* the input; each batch gets one bulk insert; an input stored without
\* failure is stored in its original order; an empty input issues no store
\* operation.
C11_ConsecutiveBatchesOfFifty ==
    LET bulk == BulkPositions(log, 1)
    IN /\ \A k \in DOMAIN bulk :
             /\ log[bulk[k]].n \in 1..batchSize
             /\ k < Len(bulk) => log[bulk[k]].n = batchSize
             /\ log[bulk[k]].at = SumOf(SubSeq(BatchSizes, 1, k - 1))
             /\ log[bulk[k]].at + log[bulk[k]].n <= Len(data)
       /\ s_pc = "done" => SumOf(BatchSizes) = Len(data)
       /\ (s_pc = "done" /\ faults = 0) =>
             records = [k \in 1..Len(data) |-> ProcessRecord(data[k])]
       /\ Len(data) = 0 => log = <<>> /\ records = <<>>

C11_Witness ==
    /\ s_pc = "done"
    /\ BatchSizes = <<batchSize, batchSize, 1>>
    /\ Len(records) = Len(data)

(***************************************************************************)
(* Properties of cleanRow and parseDate, checked under SpecClean.          *)
(***************************************************************************)
\* the raw value the row has in the column of the header, undefined when
\* the header list has no such column
RawOf(header) ==
    IF \E k \in DOMAIN headers : headers[k] = header THEN ValueOf(row, header) ELSE Undefined

Absent(value) == value \in {Undefined, NullValue}

\* the value is null, undefined, or turns into the empty string
Blank(value) == Absent(value) \/ StringOf(value) = <<>>

DerivedLevels == {"IOP", "PHP", "RES", "DETOX", "OTHER"}

\* C14: every record returned by cleanRow has a levelOfCare that is neither
\* null nor empty: the mapped value as a string when the row has one, else
\* a level derived from revenueCode when the row has a revenue code wherever
\* its column stands in the header list, else "UNKNOWN".
C14_LevelOfCareAlwaysSet ==
    cleanedRow # Null =>
        LET cleaned == cleanedRow[1]
        IN /\ "levelOfCare" \in DOMAIN cleaned
           /\ cleaned.levelOfCare # Null
           /\ cleaned.levelOfCare # <<"">>
           /\ IF ~Blank(RawOf(LOC))
              THEN cleaned.levelOfCare = <<Text(StringOf(RawOf(LOC)))>>
              ELSE IF ~Blank(RawOf(RevenueCode))
              THEN /\ cleaned.levelOfCare[1] \in DerivedLevels
                   /\ cleaned.revenueCode = <<Text(StringOf(RawOf(RevenueCode)))>>
              ELSE cleaned.levelOfCare = <<"UNKNOWN">>

\* C14 witness: the level is derived from a numeric revenue code whose
\* column comes after the empty LOC column
C14_Witness ==
    /\ cleanedRow # Null
    /\ headers = <<LOC, RevenueCode>>
    /\ row[LOC] = Str(<<>>)
    /\ row[RevenueCode] = Num(Frac(250, 1))
    /\ cleanedRow[1].levelOfCare = <<"PHP">>

\* the level the rule table gives to a first character
LevelOfFirstCharacter(cs) ==
    IF cs = <<>> THEN "OTHER"
    ELSE CASE Head(cs) = "1" -> "IOP"
           [] Head(cs) = "2" -> "PHP"
           [] Head(cs) = "3" -> "RES"
           [] Head(cs) = "4" -> "DETOX"
           [] OTHER -> "OTHER"

\* C15 as stated: with a null levelOfCare and a revenue code that is
\* present (a code that is the empty string is taken as absent here),
\* levelOfCare follows the first character of the stringified code; with
\* no revenue code either, it is UNKNOWN.
C15_FirstCharacterOfCode ==
    (cleanedRow # Null /\ Absent(RawOf(LOC))) =>
        IF ~Blank(RawOf(RevenueCode))
        THEN cleanedRow[1].levelOfCare = <<LevelOfFirstCharacter(StringOf(RawOf(RevenueCode)))>>
        ELSE cleanedRow[1].levelOfCare = <<"UNKNOWN">>

\* C15 amended: with a null levelOfCare and a revenue code that is present
\* and not the empty string, levelOfCare follows the first character of the
\* stringified code after trimming (OTHER when nothing is left); with a
\* revenue code that is absent or the empty string, it is UNKNOWN.
C15_FirstCharacterOfTrimmedCode ==
    (cleanedRow # Null /\ Absent(RawOf(LOC))) =>
        IF ~Blank(RawOf(RevenueCode))
        THEN cleanedRow[1].levelOfCare =
                 <<LevelOfFirstCharacter(Trim(StringOf(RawOf(RevenueCode))))>>
        ELSE cleanedRow[1].levelOfCare = <<"UNKNOWN">>

\* C15 witness: a code with a leading blank gets the level of its first digit
C15_Witness ==
    /\ cleanedRow # Null
    /\ headers = <<LOC, RevenueCode>>
    /\ row[LOC] = NullValue
    /\ row[RevenueCode] = Str(<<" ", "2", "5", "0">>)
    /\ cleanedRow[1].levelOfCare = <<"PHP">>

\* the text is a decimal literal from its first to its last character
\* (white space around it aside)
IsDecimalLiteral(cs) ==
    LET s == Trim(cs)
        unsigned == IF s # <<>> /\ Head(s) \in {"+", "-"} THEN Tail(s) ELSE s
        whole == TakeDigits(unsigned)
        afterWhole == Drop(unsigned, Len(whole))
        fraction == IF afterWhole # <<>> /\ Head(afterWhole) = "."
                    THEN TakeDigits(Tail(afterWhole)) ELSE <<>>
        afterFraction == IF afterWhole # <<>> /\ Head(afterWhole) = "."
                         THEN Drop(afterWhole, 1 + Len(fraction)) ELSE afterWhole
        afterE == IF afterFraction # <<>> /\ Head(afterFraction) \in {"e", "E"}
                  THEN Tail(afterFraction) ELSE <<>>
        expDigits == TakeDigits(IF afterE # <<>> /\ Head(afterE) \in {"+", "-"}
                                THEN Tail(afterE) ELSE afterE)
    IN \/ unsigned = <<"I", "n", "f", "i", "n", "i", "t", "y">>
       \/ /\ Len(whole) + Len(fraction) > 0
          /\ \/ afterFraction = <<>>
             \/ /\ expDigits # <<>>
                /\ Len(afterE) \in {Len(expDigits), Len(expDigits) + 1}
                /\ Len(afterE) = Len(expDigits) + 1 => Head(afterE) \in {"+", "-"}

\* C18: a textual value of a currency-number field becomes the decimal
\* value of the text left after removing '$' and ',' ("$1,234.50" gives
\* 1234.50), a numeric value is used as it is, and a text that is not a
\* number from end to end after stripping becomes null.
C18_CurrencyIsNumberOrNull ==
    (cleanedRow # Null /\ headers = <<AllowedAmount>>) =>
        LET value == row[AllowedAmount]
            cleaned == cleanedRow[1].allowedAmount
        IN /\ value = Str(<<"$", "1", ",", "2", "3", "4", ".", "5", "0">>) => cleaned = <<Frac(2469, 2)>>
           /\ (value[1] = "number" /\ ~IsNaN(value[2])) => cleaned = <<value[2]>>
           /\ (value[1] = "string" /\ ~IsDecimalLiteral(StripCurrency(value[2]))) =>
                  cleaned = Null

\* the cell holds a Date that is not the invalid Date
IsValidDate(cell) == IsDate(cell[1]) /\ cell[1] # InvalidDate

\* C19 as stated: a numeric input of parseDate strictly between 1000 and
\* 100000 is a serial day count; otherwise one below 10,000,000,000 is a
\* timestamp in seconds, every number at or below 1000 included; otherwise
\* it is a timestamp in milliseconds.
C19_NumericOrder ==
    (cleanedRow # Null /\ headers = <<ChargeFromDate>> /\ row[ChargeFromDate][1] = "number") =>
        LET x == row[ChargeFromDate][2]
            cleaned == cleanedRow[1].chargeFromDate
        IN IF LessThan(Frac(1000, 1), x) /\ LessThan(x, Frac(100000, 1))
           THEN cleaned = <<<<"Date", "days", Floor(x)>>>>
           ELSE IF LessThan(x, Sci(1, 10))
           THEN cleaned = <<<<"Date", "seconds", x>>>>
           ELSE cleaned = <<NewDate("milliseconds", x)>>

\* C19 amended: a numeric input below 1000 gives null; one strictly between
\* 1000 and 100000 is a serial day count; otherwise one below
\* 10,000,000,000 (1000 itself, or 100000 and more) is a timestamp in
\* seconds; otherwise it is handed to the Date constructor as a timestamp in
\* milliseconds.
C19_NumericOrderAboveFloor ==
    (cleanedRow # Null /\ headers = <<ChargeFromDate>> /\ row[ChargeFromDate][1] = "number") =>
        LET x == row[ChargeFromDate][2]
            cleaned == cleanedRow[1].chargeFromDate
        IN IF LessThan(x, Frac(1000, 1))
           THEN cleaned = Null
           ELSE IF LessThan(Frac(1000, 1), x) /\ LessThan(x, Frac(100000, 1))
           THEN cleaned = <<<<"Date", "days", Floor(x)>>>>
           ELSE IF LessThan(x, Sci(1, 10))
           THEN cleaned = <<<<"Date", "seconds", x>>>>
           ELSE cleaned = <<NewDate("milliseconds", x)>>

\* C19 witness: 999 gave null
C19_Witness ==
    /\ cleanedRow # Null
    /\ headers = <<ChargeFromDate>>
    /\ row[ChargeFromDate] = Num(Frac(999, 1))
    /\ cleanedRow[1].chargeFromDate = Null

\* C20: whatever the raw value is, a calendar-date field of the cleaned
\* record holds null or a valid date and a currency-number field holds null
\* or a finite number.
C20_NullOrValueOfTheKind ==
    cleanedRow # Null =>
        LET cleaned == cleanedRow[1]
        IN /\ \A field \in DOMAIN cleaned \cap dateFields :
                  cleaned[field] = Null \/ IsValidDate(cleaned[field])
           /\ \A field \in DOMAIN cleaned \cap numericFields :
                  cleaned[field] = Null \/ IsFinite(cleaned[field][1])

(***************************************************************************)
(* Properties of the statistics, checked under SpecStats.                  *)
(***************************************************************************)
\* the non-null allowed amounts of the stored records, in store order
RECURSIVE AmountsOf(_)
AmountsOf(rows) ==
    IF rows = <<>> THEN <<>>
    ELSE IF Head(rows).allowedAmount = Null THEN AmountsOf(Tail(rows))
         ELSE <<Head(rows).allowedAmount[1]>> \o AmountsOf(Tail(rows))

\* the k-th smallest element of xs
KthSmallest(xs, k) ==
    CHOOSE v \in {xs[n] : n \in DOMAIN xs} :
        /\ Cardinality({n \in DOMAIN xs : Less(xs[n], v)}) < k
        /\ Cardinality({n \in DOMAIN xs : ~Less(v, xs[n])}) >= k

Occurrences(xs, v) == Cardinality({n \in DOMAIN xs : xs[n] = v})

\* the positions of xs that hold an amount of the highest frequency
MostFrequent(xs) ==
    {n \in DOMAIN xs : \A k \in DOMAIN xs : Occurrences(xs, xs[k]) <= Occurrences(xs, xs[n])}

LeastOf(S) == CHOOSE n \in S : \A k \in S : n <= k

\* the summary of the DETOX bucket has been computed from the fetched amounts
DetoxComputed == Len(results) >= 1 /\ AmountsOf(records) # <<>>

C17_MeanMinMaxMedian ==
    DetoxComputed =>
        LET xs == AmountsOf(records)
            n == Len(xs)
            summary == results[1]
        IN /\ summary.averageAllowedAmount = Frac(Sum(xs)[1], Sum(xs)[2] * n)
           /\ summary.minAllowedAmount = KthSmallest(xs, 1)
           /\ summary.maxAllowedAmount = KthSmallest(xs, n)
           /\ summary.medianAllowedAmount =
                  IF n % 2 = 1 THEN KthSmallest(xs, (n + 1) \div 2)
                  ELSE LET sum == Plus(KthSmallest(xs, n \div 2), KthSmallest(xs, n \div 2 + 1))
                       IN Frac(sum[1], sum[2] * 2)
           /\ xs = <<Frac(10, 1), Frac(20, 1), Frac(20, 1), Frac(30, 1)>> =>
                  summary.medianAllowedAmount = Frac(20, 1)
           /\ xs = <<Frac(5, 1), Frac(15, 1)>> => summary.medianAllowedAmount = Frac(10, 1)

\* C17 witness: the amounts 5 and 15 gave the median 10
C17_Witness ==
    /\ DetoxComputed
    /\ AmountsOf(records) = <<Frac(5, 1), Frac(15, 1)>>
    /\ results[1].medianAllowedAmount = Frac(10, 1)
    /\ results[1].averageAllowedAmount = Frac(10, 1)

(***************************************************************************)
(* Properties of the upload action, checked under SpecUpload.              *)
(***************************************************************************)
\* the upload requests received so far
Uploads == Len(responses) + (IF u_pc \in {"save", "metrics"} THEN 1 ELSE 0)

\* the request has no file, or a file that cannot be parsed or has no record
NothingToSave(f) ==
    \/ f = Null
    \/ fileExtension(f) \notin {"csv", "xlsx", "xls"}
    \/ "thrown" \in DOMAIN Parsed(f)
    \/ Len(Parsed(f).data) = 0

\* C12: uploading the same file a second time leaves the summary of every
\* bucket, recordCount included, as it was after the first upload (no store
\* failure in either upload).
C12_ReuploadKeepsSummaries ==
    (Len(responses) = 2 /\ faults = 0 /\ responses[1].status = 200 /\ responses[2].status = 200) =>
        responses[2].metrics = responses[1].metrics

\* C13: the stages of an upload run in sequence: saveDataToDatabase is
\* called only with the records of a successful parse, at least one, and
\* calculateMetrics only after that call has returned; a request whose file
\* cannot be parsed or has no record ends with an error response, without a
\* call of either and with nothing persisted.
C13_StagesInSequence ==
    /\ runs <= saves
    /\ saves <= Uploads
    /\ s_pc \notin {"idle", "done"} => u_pc = "save"
    /\ m_pc \notin {"idle", "done"} => u_pc = "metrics"
    /\ u_pc = "save" =>
          /\ m_pc \in {"idle", "done"}
          /\ runs = saves - 1
          /\ saves = Uploads
          /\ parsedData # Null
          /\ data = parsedData[1].data
          /\ Len(data) >= 1
    /\ u_pc = "metrics" =>
          /\ s_pc = "done"
          /\ s_outcome = "returned"
          /\ runs = saves
          /\ saves = Uploads
    /\ saves > 0 => ~NothingToSave(file)
    /\ (u_pc = "done" /\ NothingToSave(file)) =>
          /\ saves = 0
          /\ runs = 0
          /\ records = <<>>
          /\ \A k \in DOMAIN responses :
                 responses[k].status = 400 /\ "error" \in DOMAIN responses[k]

\* C13 witness: an upload went through the three stages and was answered
C13_Witness ==
    /\ Len(responses) = 1
    /\ responses[1].status = 200
    /\ saves = 1
    /\ runs = 1
    /\ s_outcome = "returned"
    /\ Len(records) = 2

(***************************************************************************)
(* Properties of the header mapping, checked under SpecClean.              *)
(***************************************************************************)
\* the canonical field names: the values of the header-to-field mapping
CanonicalFields == {FIELD_MAPPING[k] : k \in DOMAIN FIELD_MAPPING}

\* C21: every key of the record cleanRow returns is a canonical field name
\* of the mapping or levelOfCare, whatever the header texts are (the empty
\* normalized key and the names of built-in object properties included).
C21_KeysAreCanonical ==
    cleanedRow # Null => DOMAIN cleanedRow[1] \subseteq CanonicalFields \cup {"levelOfCare"}

(***************************************************************************)
(* Properties of the parsers, checked under SpecUpload.                    *)
(***************************************************************************)
\* the rows of a file as cleanRow gets them: a row with its header list
RowsOf(f) ==
    IF "rows" \in DOMAIN f
    THEN LET withKeys == SelectSeq(f.rows, LAMBDA r : DOMAIN r # {})
         IN [k \in DOMAIN withKeys |-> [row |-> withKeys[k], headers |-> f.fields]]
    ELSE LET hs == ExcelHeaders(f.rawData)
             cells == SelectSeq(Tail(f.rawData), LAMBDA c : Len(c) > 0)
         IN [k \in DOMAIN cells |-> [row |-> RowData(hs, cells[k]), headers |-> hs]]

\* the file has rows, and cleanRow raises on one of them
HasRaisingRow(f) ==
    /\ f # Null
    /\ "rows" \in DOMAIN f \/ ("rawData" \in DOMAIN f /\ f.readable /\ Len(f.rawData) >= 2)
    /\ \E k \in DOMAIN RowsOf(f) : cleanRowRaises(RowsOf(f)[k].row, RowsOf(f)[k].headers)

\* the records of the rows on which cleanRow does not raise, in source order
OtherRows(f) ==
    LET kept == SelectSeq(RowsOf(f), LAMBDA r : ~cleanRowRaises(r.row, r.headers))
    IN [k \in DOMAIN kept |-> cleanRow(kept[k].row, kept[k].headers)]

C23_NormalizeIdempotentTotal ==
    /\ \A k \in DOMAIN normalized :
           /\ normalized[k] \in Seq(FieldNameCharacters)
           /\ Len(normalized[k]) <= Len(fieldName)
    /\ Len(normalized) = 2 => normalized[2] = normalized[1]

\* C23 witness: a text with an upper case letter, a white space run and
\* punctuation, normalized twice
C23_Witness ==
    /\ fieldName = <<"A", " ", "-">>
    /\ Len(normalized) = 2
    /\ normalized[1] = <<"a", "_">>
    /\ normalized[2] = <<"a", "_">>

(***************************************************************************)
(* Properties of the record store, checked under SpecUpload.               *)
(***************************************************************************)
\* the stored rows before the step are the first rows after it, unchanged
RecordsKept == Len(records) <= Len(records') /\ SubSeq(records', 1, Len(records)) = records

\* the step belongs to a calculateMetrics call: the call starts or is running
MetricsStep == runs' # runs \/ m_pc \notin {"idle", "done"}

\* C24: claim records are immutable once persisted: no step of a
\* saveDataToDatabase or calculateMetrics call updates or deletes a stored
\* record; saveDataToDatabase only adds records and calculateMetrics leaves
\* the record store as it is.
C24_RecordsImmutable ==
    [][RecordsKept /\ (MetricsStep => records' = records)]_vars

\* C24 witness: two uploads have saved and computed, the second added its
\* records after those of the first
C24_Witness ==
    /\ saves = 2
    /\ runs = 2
    /\ u_pc = "done"
    /\ Len(records) = 4
    /\ Len(summaries) > 0

(***************************************************************************)
(* Properties of the summary keys, checked under SpecDashboard.            *)
(***************************************************************************)
\* C25: two different filter sets built by the dashboard loader give every
\* bucket different summary keys in the upserts of calculateMetrics, so that
\* the summary of one filter combination is never written over that of
\* another.
C25_DifferentFiltersDifferentKeys ==
    \A k1, k2 \in DOMAIN loads :
        loads[k1] # loads[k2] =>
            \A n \in DOMAIN levelsOfCare :
                UpsertKey(levelsOfCare[n], loads[k1]) # UpsertKey(levelsOfCare[n], loads[k2])

(***************************************************************************)
(* Properties of interleaved calls, checked under SpecInterleaved.         *)
(***************************************************************************)
\* the step is the fetch query of the current bucket and its computation
FetchStep == m_pc = "findMany" /\ m_pc' = "upsert"

\* C26: the recordCount of every summary calculateMetrics returns is at
\* least the number of non-null amounts its statistics were computed from,
\* also when a saveDataToDatabase call of another upload runs between the
\* count query and the fetch query of the bucket.
C26_CountCoversAmounts ==
    [][FetchStep =>
          results'[Len(results')].recordCount
              >= Len(ValidAmounts(FindManyAllowedAmount(records, whereClause)))]_vars

(***************************************************************************)
(* Properties of the buckets, checked under Spec.                          *)
(***************************************************************************)
\* the number of stored records whose levelOfCare is one of the levels
Having(levels) ==
    Cardinality({k \in DOMAIN records : \E l \in levels : Cell(records[k], "levelOfCare") = <<l>>})

BucketNames == {levelsOfCare[k] : k \in DOMAIN levelsOfCare}

\* C27: with an empty filter set and no store failure, each of the five
\* summaries counts the stored records of its own level, and the five
\* recordCount values sum to the number of stored records whose levelOfCare
\* is DETOX, RES, PHP, IOP or OTHER: a record of such a level is counted in
\* exactly one bucket, a record with UNKNOWN or another level in none.
C27_CountsPartitionBuckets ==
    (m_pc = "done" /\ filters = <<>> /\ NoFailureInRun /\ Len(results) = Len(levelsOfCare)) =>
        /\ \A k \in DOMAIN results : results[k].recordCount = Having({levelsOfCare[k]})
        /\ SumOf([k \in DOMAIN results |-> results[k].recordCount]) = Having(BucketNames)

\* C27 witness: of two stored records, one of level DETOX and one of the
\* level OP, the five summaries count one
C27_Witness ==
    /\ m_pc = "done"
    /\ filters = <<>>
    /\ NoFailureInRun
    /\ Len(records) = 2
    /\ Having({"DETOX"}) = 1
    /\ Having({"OP"}) = 1
    /\ SumOf([k \in DOMAIN results |-> results[k].recordCount]) = 1

(***************************************************************************)
(* Properties of the columns of a sheet, checked under SpecUpload.         *)
(***************************************************************************)
IsSheet(f) == f # Null /\ "rawData" \in DOMAIN f /\ f.readable /\ Len(f.rawData) >= 2

\* the sheet columns whose cell of the header row holds the header
SheetColumns(first, header) ==
    {c \in DOMAIN first : ~Falsy(first[c]) /\ Trim(StringOf(first[c])) = header}

\* C28: in parseExcel the value a data row contributes to a header is the
\* cell of that row in a sheet column whose header cell holds that header,
\* also when blank header cells stand between or before the other ones.
C28_ValueFromHeaderColumn ==
    (u_pc # "idle" /\ IsSheet(file)) =>
        LET first == file.rawData[1]
            hs == ExcelHeaders(file.rawData)
        IN \A n \in 2..Len(file.rawData) :
               LET cells == file.rawData[n]
                   rowData == RowData(hs, cells)
               IN \A h \in DOMAIN rowData :
                      \E c \in SheetColumns(first, h) : c <= Len(cells) /\ rowData[h] = cells[c]

(***************************************************************************)
(* Properties of what one saveDataToDatabase call stores, checked under    *)
(* SpecSave, where the record store is empty when the call starts.         *)
(***************************************************************************)
\* the successful inserts of log, in the order they were made
Inserts == SelectSeq(log, LAMBDA e : e.ok)

\* the 1-based positions of the input records an insert wrote
PositionsOf(e) == [k \in 1..e.n |-> e.at + k]

\* the positions of the input records written by the inserts from the p-th on
RECURSIVE WrittenPositions(_, _)
WrittenPositions(inserts, p) ==
    IF p > Len(inserts) THEN <<>>
    ELSE PositionsOf(inserts[p]) \o WrittenPositions(inserts, p + 1)

\* C29: with a bulk insert that stores all of its batch or nothing, one
\* saveDataToDatabase call stores each input record at most once (never
\* both by a bulk insert and by the individual fallback): the inserts that
\* succeeded wrote strictly increasing input positions, the records the
\* call has added to the store are the input records at these positions,
\* one each, their number is the saved count, and the saved count never
\* exceeds the number of input records.
C29_EachRecordStoredAtMostOnce ==
    LET inserts == Inserts
        written == WrittenPositions(inserts, 1)
    IN /\ \A k \in 1..(Len(written) - 1) : written[k] < written[k + 1]
       /\ \A k \in DOMAIN written : written[k] \in 1..Len(data)
       /\ Len(records) = Len(written)
       /\ \A k \in DOMAIN records : records[k] = ProcessRecord(data[written[k]])
       /\ Len(records) = savedCount
       /\ savedCount <= Len(data)

\* C29 witness: a call of more than two batches has returned; one bulk
\* insert stored its batch, another one failed and the fallback stored
\* some but not all records of that batch
C29_Witness ==
    /\ s_pc = "done"
    /\ Len(data) > 2 * batchSize
    /\ \E p \in DOMAIN log : log[p].op = "createMany" /\ log[p].ok
    /\ \E p \in DOMAIN log : log[p].op = "createMany" /\ ~log[p].ok
    /\ \E p \in DOMAIN log : log[p].op = "create" /\ ~log[p].ok
    /\ Len(records) = Len(data) - 1
    /\ savedCount = Len(records)

(***************************************************************************)
(* Properties of the success response, checked under SpecUpload.           *)
(***************************************************************************)
\* the upload action has just returned its success response
ReturnedSuccess ==
    /\ u_pc = "done"
    /\ responses # <<>>
    /\ responses[Len(responses)].status = 200

\* C30: when the upload action returns the success response with the
\* message that N records were successfully processed, N records of that
\* upload have been persisted: its saveDataToDatabase call has saved N
\* records, and after the first upload the record store holds N records.
C30_SuccessMeansPersisted ==
    ReturnedSuccess =>
        /\ responses[Len(responses)].message =
               "Successfully processed " \o Text(NatToString(savedCount)) \o " records."
        /\ Len(responses) = 1 => Len(records) = Len(parsedData[1].data)

====
